---- MODULE Spec2Model ----
(***************************************************************************)
(* Citation parser and passage extraction engine of citation-extractor.    *)
(* Strings are TLA+ strings; a character is a string of length 1.          *)
(* Regular expressions are syntax trees run by a backtracking matcher that *)
(* lists the matches in the priority order of Python's re module, so the   *)
(* head of the list is the match Python returns.                           *)
(***************************************************************************)
EXTENDS Integers, Sequences, FiniteSets, TLC

VARIABLES
    op,              \* the operation whose call is outstanding, or "idle"
    citation,        \* the citation string it was called with
    args,            \* its other arguments
    result,          \* what it returned, None for null or no result
    raised,          \* the exception that left it, or "none"
    bibleCalls,      \* the calls of extractBiblicalPassage it made
    literaryCalls,   \* the calls of extractLiteraryPassage it made
    confidenceWrites,\* the assignments to a candidate's confidence it made
    literary_works   \* the engine's index, with the files it names

vars == <<op, citation, args, result, raised, bibleCalls, literaryCalls, confidenceWrites,
          literary_works>>

----------------------------------------------------------------------------
(* Characters and Python's str helpers                                     *)

Ch(s, i) == SubSeq(s, i, i)

UpperS == "ABCDEFGHIJKLMNOPQRSTUVWXYZ"
LowerS == "abcdefghijklmnopqrstuvwxyz"

UpperLetter == {Ch(UpperS, i) : i \in 1..Len(UpperS)}
LowerLetter == {Ch(LowerS, i) : i \in 1..Len(LowerS)}
Letter == UpperLetter \cup LowerLetter
Digit == {"0", "1", "2", "3", "4", "5", "6", "7", "8", "9"}
Whitespace == {" ", "\t", "\n", "\r", "\f"}

ToLowerCh(c) ==
    IF c \in UpperLetter
    THEN Ch(LowerS, CHOOSE i \in 1..Len(UpperS) : Ch(UpperS, i) = c)
    ELSE c

ToUpperCh(c) ==
    IF c \in LowerLetter
    THEN Ch(UpperS, CHOOSE i \in 1..Len(LowerS) : Ch(LowerS, i) = c)
    ELSE c

\* recursions over a string split it in halves, which keeps them shallow
RECURSIVE StrLower(_)
StrLower(s) ==
    IF Len(s) <= 1 THEN ToLowerCh(s)
    ELSE StrLower(SubSeq(s, 1, Len(s) \div 2))
         \o StrLower(SubSeq(s, (Len(s) \div 2) + 1, Len(s)))

NonBlank(s) == {i \in 1..Len(s) : Ch(s, i) \notin Whitespace}
First(S) == CHOOSE i \in S : \A h \in S : i <= h
Last(S) == CHOOSE i \in S : \A h \in S : h <= i

LStrip(s) == IF NonBlank(s) = {} THEN "" ELSE SubSeq(s, First(NonBlank(s)), Len(s))
RStrip(s) == IF NonBlank(s) = {} THEN "" ELSE SubSeq(s, 1, Last(NonBlank(s)))
Strip(s) == RStrip(LStrip(s))

Contains(s, sub) ==
    \E i \in 1..(Len(s) - Len(sub) + 1) : SubSeq(s, i, i + Len(sub) - 1) = sub

IsDigits(s) == s # "" /\ \A i \in 1..Len(s) : Ch(s, i) \in Digit

DigitVal(c) == CHOOSE n \in 0..9 : Ch("0123456789", n + 1) = c

RECURSIVE ToInt(_)
ToInt(s) ==
    IF s = "" THEN 0
    ELSE 10 * ToInt(SubSeq(s, 1, Len(s) - 1)) + DigitVal(Ch(s, Len(s)))

----------------------------------------------------------------------------
(* Regular expressions: syntax                                             *)

None == <<>>
Some(v) == <<v>>

RSet(S) == [k |-> "set", s |-> S]
RNotSet(S) == [k |-> "nset", s |-> S]
RCat(xs) == [k |-> "cat", xs |-> xs]
RRep(x, lo, hi, greedy) == [k |-> "rep", x |-> x, lo |-> lo, hi |-> hi, greedy |-> greedy]
RGrp(n, x) == [k |-> "grp", n |-> n, x |-> x]
RAlt(xs) == [k |-> "alt", xs |-> xs]
REnd == [k |-> "end"]

Unbounded == -1
ROpt(x) == RRep(x, 0, 1, TRUE)
RStar(x) == RRep(x, 0, Unbounded, TRUE)
RPlus(x) == RRep(x, 1, Unbounded, TRUE)
RPlusLazy(x) == RRep(x, 1, Unbounded, FALSE)

\* re.IGNORECASE: a literal character matches in either case
RLit(c) == RSet({c, ToLowerCh(c), ToUpperCh(c)})
RWord(w) == [k |-> "word", w |-> StrLower(w)]

----------------------------------------------------------------------------
(* Regular expressions: backtracking matcher                               *)
(* A match state is [j, caps]: j the position after the text consumed,     *)
(* caps the groups captured so far (None for a group that did not take     *)
(* part).                                                                  *)

SetGroup(caps, n, v) == [caps EXCEPT ![n] = Some(v)]

\* the lists ll[lo..hi] joined in their order
RECURSIVE Flatten(_, _, _)
Flatten(ll, lo, hi) ==
    IF lo > hi THEN <<>>
    ELSE IF lo = hi THEN ll[lo]
    ELSE Flatten(ll, lo, (lo + hi) \div 2) \o Flatten(ll, ((lo + hi) \div 2) + 1, hi)

RECURSIVE Run(_, _, _, _), RunCat(_, _, _, _), RunRep(_, _, _, _, _), RunAlt(_, _, _, _, _)

\* a repeated character class: the run of matching characters is found
\* directly and the repetition counts are listed longest first (greedy) or
\* shortest first (lazy), which is the order backtracking tries them in
IsCharClass(x) == x.k \in {"set", "nset"}
InClass(x, c) == IF x.k = "set" THEN c \in x.s ELSE c \notin x.s
RunLength(x, s, i) ==
    (CHOOSE j \in i..(Len(s) + 1) :
        /\ j = Len(s) + 1 \/ ~InClass(x, Ch(s, j))
        /\ \A h \in i..(j - 1) : InClass(x, Ch(s, h))) - i
RunClassRep(x, s, i, caps) ==
    LET run == RunLength(x.x, s, i)
        most == IF x.hi # Unbounded /\ x.hi < run THEN x.hi ELSE run
    IN  [n \in 1..(most - x.lo + 1) |->
            [j |-> i + (IF x.greedy THEN most - n + 1 ELSE x.lo + n - 1), caps |-> caps]]

\* the matches of a group are the matches of its body, with the text they
\* cover recorded
RunGrp(rs, g, s, i) ==
    [n \in 1..Len(rs) |->
        [j |-> rs[n].j, caps |-> SetGroup(rs[n].caps, g, SubSeq(s, i, rs[n].j - 1))]]

Run(x, s, i, caps) ==
    CASE x.k = "set" ->
           IF i <= Len(s) /\ Ch(s, i) \in x.s
           THEN <<[j |-> i + 1, caps |-> caps]>> ELSE <<>>
      [] x.k = "nset" ->
           IF i <= Len(s) /\ Ch(s, i) \notin x.s
           THEN <<[j |-> i + 1, caps |-> caps]>> ELSE <<>>
      [] x.k = "word" ->
           IF i + Len(x.w) - 1 <= Len(s) /\ StrLower(SubSeq(s, i, i + Len(x.w) - 1)) = x.w
           THEN <<[j |-> i + Len(x.w), caps |-> caps]>> ELSE <<>>
      [] x.k = "end" ->
           IF i = Len(s) + 1 \/ (i = Len(s) /\ Ch(s, i) = "\n")
           THEN <<[j |-> i, caps |-> caps]>> ELSE <<>>
      [] x.k = "cat" -> RunCat(x.xs, 1, s, <<[j |-> i, caps |-> caps]>>)
      [] x.k = "alt" -> RunAlt(x.xs, 1, s, i, caps)
      [] x.k = "rep" ->
           IF IsCharClass(x.x) THEN RunClassRep(x, s, i, caps) ELSE RunRep(x, 0, s, i, caps)
      [] x.k = "grp" -> RunGrp(Run(x.x, s, i, caps), x.n, s, i)

RunAlt(xs, k, s, i, caps) ==
    IF k > Len(xs) THEN <<>>
    ELSE Run(xs[k], s, i, caps) \o RunAlt(xs, k + 1, s, i, caps)

\* the matches of x from each of the matches rs, in their order
RunEach(x, s, rs) ==
    Flatten([n \in 1..Len(rs) |-> Run(x, s, rs[n].j, rs[n].caps)], 1, Len(rs))

\* the matches of xs[k..] one after another, continuing each of the
\* matches rs: the alternatives of an earlier element are exhausted last,
\* which is the order backtracking finds the matches in
RunCat(xs, k, s, rs) ==
    IF rs = <<>> \/ k > Len(xs) THEN rs
    ELSE RunCat(xs, k + 1, s, RunEach(xs[k], s, rs))

\* cnt iterations done: greedy tries one more iteration before stopping,
\* lazy stops before trying one more; an iteration that consumed nothing
\* is not repeated
RunRep(x, cnt, s, i, caps) ==
    LET stop == IF cnt >= x.lo THEN <<[j |-> i, caps |-> caps]>> ELSE <<>>
        Ordered(more) == IF x.greedy THEN more \o stop ELSE stop \o more
        Repeated(rs) ==
            IF (x.hi # Unbounded /\ cnt >= x.hi) \/ rs = <<>> THEN stop
            ELSE Ordered(Flatten([n \in 1..Len(rs) |->
                                    IF rs[n].j > i
                                    THEN RunRep(x, cnt + 1, s, rs[n].j, rs[n].caps)
                                    ELSE <<>>], 1, Len(rs)))
    IN  Repeated(Run(x.x, s, i, caps))

NoGroups(n) == [g \in 1..n |-> None]

\* pattern.match(s): the match at the start of s, or None
ReMatchAt(p, s, i) ==
    LET FirstOf(rs) ==
            IF rs = <<>> THEN None
            ELSE Some([start |-> i, end |-> rs[1].j, group |-> rs[1].caps])
    IN  IF i > Len(s) + 1 THEN None ELSE FirstOf(Run(p.re, s, i, NoGroups(p.groups)))

ReMatch(p, s) == ReMatchAt(p, s, 1)

\* pattern.search(s): the match at the leftmost position that has one
ReSearch(p, s) ==
    LET Leftmost(at) ==
            IF \A i \in DOMAIN at : at[i] = None THEN None
            ELSE at[First({i \in DOMAIN at : at[i] # None})]
    IN  Leftmost([i \in 1..(Len(s) + 1) |-> ReMatchAt(p, s, i)])

\* match.group(n): None when the group took no part in the match
Group(m, n) == m[1].group[n]

----------------------------------------------------------------------------
(* CitationParser._defineCitationPatterns                                  *)

Ws == RSet(Whitespace)
Alpha == RSet(Letter)
Dig == RSet(Digit)
LetOrWs == RSet(Letter \cup Whitespace)
Nums == RPlus(Dig)

\* ([1-3]?\s*[A-Za-z]+(?:\s+of\s+[A-Za-z]+)?(?:\s+[A-Za-z]+)*)\s+(\d+):(\d+)(?:-(\d+))?
bible_standard ==
    [groups |-> 4,
     re |-> RCat(<<
        RGrp(1, RCat(<<
            ROpt(RSet({"1", "2", "3"})), RStar(Ws), RPlus(Alpha),
            ROpt(RCat(<<RPlus(Ws), RWord("of"), RPlus(Ws), RPlus(Alpha)>>)),
            RStar(RCat(<<RPlus(Ws), RPlus(Alpha)>>))>>)),
        RPlus(Ws), RGrp(2, Nums), RLit(":"), RGrp(3, Nums),
        ROpt(RCat(<<RLit("-"), RGrp(4, Nums)>>))>>)]

\* the simple pattern without its optional periods
literature_simple_strict ==
    [groups |-> 3,
     re |-> RCat(<<
        RGrp(1, RPlusLazy(LetOrWs)), RPlus(Ws), RGrp(2, Nums),
        ROpt(RCat(<<RLit("-"), RGrp(3, Nums)>>)), REnd>>)]

\* ([A-Za-z\s]+?)\.?\s+(\d+)(?:-(\d+))?\.?$
literature_simple ==
    [groups |-> 3,
     re |-> RCat(<<
        RGrp(1, RPlusLazy(LetOrWs)), ROpt(RLit(".")), RPlus(Ws), RGrp(2, Nums),
        ROpt(RCat(<<RLit("-"), RGrp(3, Nums)>>)), ROpt(RLit(".")), REnd>>)]

\* ([A-Za-z\s]+?)\s+(?:Book\s+)?([IVX]+|[0-9]+)[\.,]\s*(\d+)(?:-(\d+))?
literature_book ==
    [groups |-> 4,
     re |-> RCat(<<
        RGrp(1, RPlusLazy(LetOrWs)), RPlus(Ws),
        ROpt(RCat(<<RWord("Book"), RPlus(Ws)>>)),
        RGrp(2, RAlt(<<RPlus(RSet({"I", "V", "X", "i", "v", "x"})), Nums>>)),
        RSet({".", ","}), RStar(Ws), RGrp(3, Nums),
        ROpt(RCat(<<RLit("-"), RGrp(4, Nums)>>))>>)]

\* ([A-Za-z\s]+?)\s+Act\s+(\d+)\s+Scene\s+(\d+),?\s+(\d+)(?:-(\d+))?
literature_drama ==
    [groups |-> 5,
     re |-> RCat(<<
        RGrp(1, RPlusLazy(LetOrWs)), RPlus(Ws), RWord("Act"), RPlus(Ws), RGrp(2, Nums),
        RPlus(Ws), RWord("Scene"), RPlus(Ws), RGrp(3, Nums), ROpt(RLit(",")),
        RPlus(Ws), RGrp(4, Nums), ROpt(RCat(<<RLit("-"), RGrp(5, Nums)>>))>>)]

\* cf\.\s*([^;]+);\s*([^;]+)
mixed_reference ==
    [groups |-> 2,
     re |-> RCat(<<
        RWord("cf"), RLit("."), RStar(Ws), RGrp(1, RPlus(RNotSet({";"}))), RLit(";"),
        RStar(Ws), RGrp(2, RPlus(RNotSet({";"})))>>)]

----------------------------------------------------------------------------
(* CitationParser._buildBiblicalBookDatabase                               *)

\* the entries of the table, in the order of the source
BookEntries == <<
    <<"genesis", "Genesis">>, <<"gen", "Genesis">>, <<"ge", "Genesis">>,
    <<"exodus", "Exodus">>, <<"exod", "Exodus">>, <<"ex", "Exodus">>,
    <<"leviticus", "Leviticus">>, <<"lev", "Leviticus">>, <<"le", "Leviticus">>,
    <<"numbers", "Numbers">>, <<"num", "Numbers">>, <<"nu", "Numbers">>,
    <<"deuteronomy", "Deuteronomy">>, <<"deut", "Deuteronomy">>, <<"dt", "Deuteronomy">>,
    <<"joshua", "Joshua">>, <<"josh", "Joshua">>, <<"jos", "Joshua">>,
    <<"judges", "Judges">>, <<"judg", "Judges">>, <<"jdg", "Judges">>,
    <<"ruth", "Ruth">>, <<"ru", "Ruth">>,
    <<"1 samuel", "1 Samuel">>, <<"1sam", "1 Samuel">>, <<"1sa", "1 Samuel">>,
    <<"2 samuel", "2 Samuel">>, <<"2sam", "2 Samuel">>, <<"2sa", "2 Samuel">>,
    <<"1 kings", "1 Kings">>, <<"1kgs", "1 Kings">>, <<"1ki", "1 Kings">>,
    <<"2 kings", "2 Kings">>, <<"2kgs", "2 Kings">>, <<"2ki", "2 Kings">>,
    <<"1 chronicles", "1 Chronicles">>, <<"1chr", "1 Chronicles">>, <<"1ch", "1 Chronicles">>,
    <<"2 chronicles", "2 Chronicles">>, <<"2chr", "2 Chronicles">>, <<"2ch", "2 Chronicles">>,
    <<"ezra", "Ezra">>, <<"ezr", "Ezra">>,
    <<"nehemiah", "Nehemiah">>, <<"neh", "Nehemiah">>, <<"ne", "Nehemiah">>,
    <<"esther", "Esther">>, <<"est", "Esther">>, <<"es", "Esther">>,
    <<"job", "Job">>, <<"jb", "Job">>,
    <<"psalms", "Psalms">>, <<"psalm", "Psalms">>, <<"ps", "Psalms">>, <<"psa", "Psalms">>,
    <<"proverbs", "Proverbs">>, <<"prov", "Proverbs">>, <<"pr", "Proverbs">>,
    <<"ecclesiastes", "Ecclesiastes">>, <<"eccl", "Ecclesiastes">>, <<"ec", "Ecclesiastes">>,
    <<"song of solomon", "Song of Solomon">>, <<"song of songs", "Song of Solomon">>, <<"song", "Song of Solomon">>, <<"so", "Song of Solomon">>, <<"sos", "Song of Solomon">>,
    <<"isaiah", "Isaiah">>, <<"isa", "Isaiah">>, <<"is", "Isaiah">>,
    <<"jeremiah", "Jeremiah">>, <<"jer", "Jeremiah">>, <<"je", "Jeremiah">>,
    <<"lamentations", "Lamentations">>, <<"lam", "Lamentations">>, <<"la", "Lamentations">>,
    <<"ezekiel", "Ezekiel">>, <<"ezek", "Ezekiel">>, <<"eze", "Ezekiel">>,
    <<"daniel", "Daniel">>, <<"dan", "Daniel">>, <<"da", "Daniel">>,
    <<"hosea", "Hosea">>, <<"hos", "Hosea">>, <<"ho", "Hosea">>,
    <<"joel", "Joel">>, <<"joe", "Joel">>,
    <<"amos", "Amos">>, <<"am", "Amos">>,
    <<"obadiah", "Obadiah">>, <<"obad", "Obadiah">>, <<"ob", "Obadiah">>,
    <<"jonah", "Jonah">>, <<"jon", "Jonah">>,
    <<"micah", "Micah">>, <<"mic", "Micah">>, <<"mi", "Micah">>,
    <<"nahum", "Nahum">>, <<"nah", "Nahum">>, <<"na", "Nahum">>,
    <<"habakkuk", "Habakkuk">>, <<"hab", "Habakkuk">>, <<"hb", "Habakkuk">>,
    <<"zephaniah", "Zephaniah">>, <<"zeph", "Zephaniah">>, <<"zep", "Zephaniah">>,
    <<"haggai", "Haggai">>, <<"hag", "Haggai">>, <<"hg", "Haggai">>,
    <<"zechariah", "Zechariah">>, <<"zech", "Zechariah">>, <<"zec", "Zechariah">>,
    <<"malachi", "Malachi">>, <<"mal", "Malachi">>,
    <<"matthew", "Matthew">>, <<"matt", "Matthew">>, <<"mt", "Matthew">>,
    <<"mark", "Mark">>, <<"mk", "Mark">>,
    <<"luke", "Luke">>, <<"lk", "Luke">>,
    <<"john", "John">>, <<"jn", "John">>,
    <<"acts", "Acts">>, <<"ac", "Acts">>,
    <<"romans", "Romans">>, <<"rom", "Romans">>, <<"ro", "Romans">>,
    <<"1 corinthians", "1 Corinthians">>, <<"1cor", "1 Corinthians">>, <<"1co", "1 Corinthians">>,
    <<"2 corinthians", "2 Corinthians">>, <<"2cor", "2 Corinthians">>, <<"2co", "2 Corinthians">>,
    <<"galatians", "Galatians">>, <<"gal", "Galatians">>, <<"ga", "Galatians">>,
    <<"ephesians", "Ephesians">>, <<"eph", "Ephesians">>, <<"ep", "Ephesians">>,
    <<"philippians", "Philippians">>, <<"phil", "Philippians">>, <<"php", "Philippians">>,
    <<"colossians", "Colossians">>, <<"col", "Colossians">>,
    <<"1 thessalonians", "1 Thessalonians">>, <<"1thess", "1 Thessalonians">>, <<"1th", "1 Thessalonians">>,
    <<"2 thessalonians", "2 Thessalonians">>, <<"2thess", "2 Thessalonians">>, <<"2th", "2 Thessalonians">>,
    <<"1 timothy", "1 Timothy">>, <<"1tim", "1 Timothy">>, <<"1ti", "1 Timothy">>,
    <<"2 timothy", "2 Timothy">>, <<"2tim", "2 Timothy">>, <<"2ti", "2 Timothy">>,
    <<"titus", "Titus">>, <<"tit", "Titus">>, <<"ti", "Titus">>,
    <<"philemon", "Philemon">>, <<"phlm", "Philemon">>, <<"phm", "Philemon">>,
    <<"hebrews", "Hebrews">>, <<"heb", "Hebrews">>,
    <<"james", "James">>, <<"jas", "James">>, <<"ja", "James">>,
    <<"1 peter", "1 Peter">>, <<"1pet", "1 Peter">>, <<"1pe", "1 Peter">>,
    <<"2 peter", "2 Peter">>, <<"2pet", "2 Peter">>, <<"2pe", "2 Peter">>,
    <<"1 john", "1 John">>, <<"1jn", "1 John">>,
    <<"2 john", "2 John">>, <<"2jn", "2 John">>,
    <<"3 john", "3 John">>, <<"3jn", "3 John">>,
    <<"jude", "Jude">>, <<"jd", "Jude">>,
    <<"revelation", "Revelation">>, <<"rev", "Revelation">>, <<"re", "Revelation">>>>

biblical_books ==
    [k \in {BookEntries[i][1] : i \in DOMAIN BookEntries} |->
        BookEntries[CHOOSE i \in DOMAIN BookEntries : BookEntries[i][1] = k][2]]

CanonicalBooks == {biblical_books[k] : k \in DOMAIN biblical_books}

----------------------------------------------------------------------------
(* More of Python's str and re helpers                                     *)

\* re.sub(r'\s+', ' ', s): a run of whitespace becomes one space, written
\* at the first character of the run
RECURSIVE CollapseFrom(_, _, _)
CollapseFrom(s, lo, hi) ==
    IF lo > hi THEN ""
    ELSE IF lo = hi
    THEN (IF Ch(s, lo) \notin Whitespace THEN Ch(s, lo)
          ELSE IF lo > 1 /\ Ch(s, lo - 1) \in Whitespace THEN "" ELSE " ")
    ELSE CollapseFrom(s, lo, (lo + hi) \div 2) \o CollapseFrom(s, ((lo + hi) \div 2) + 1, hi)

CollapseWhitespace(s) == CollapseFrom(s, 1, Len(s))

\* s.replace(' ', '')
RECURSIVE RemoveSpaces(_)
RemoveSpaces(s) ==
    IF Len(s) <= 1 THEN (IF s = " " THEN "" ELSE s)
    ELSE RemoveSpaces(SubSeq(s, 1, Len(s) \div 2))
         \o RemoveSpaces(SubSeq(s, (Len(s) \div 2) + 1, Len(s)))

\* s.split(sep) for a separator of one character
RECURSIVE Split(_, _)
Split(s, sep) ==
    IF \E i \in 1..Len(s) : Ch(s, i) = sep
    THEN LET i == CHOOSE i \in 1..Len(s) :
                    Ch(s, i) = sep /\ \A h \in 1..(i - 1) : Ch(s, h) # sep
         IN  <<SubSeq(s, 1, i - 1)>> \o Split(SubSeq(s, i + 1, Len(s)), sep)
    ELSE <<s>>

\* ^(\d+)\s*([a-z]+) without re.IGNORECASE
numbered_book ==
    [groups |-> 2,
     re |-> RCat(<<RGrp(1, Nums), RStar(Ws), RGrp(2, RPlus(RSet(LowerLetter)))>>)]

----------------------------------------------------------------------------
(* CitationParser                                                          *)

\* the lookup without the second try that removes the spaces
normalizeBookNamesNoRetry(book_name) ==
    LET stripped == CollapseWhitespace(StrLower(Strip(book_name)))
        m == ReMatch(numbered_book, stripped)
        clean_name ==
            IF m # None
            THEN Group(m, 1)[1] \o " " \o Group(m, 2)[1]
                 \o SubSeq(stripped, m[1].end, Len(stripped))
            ELSE stripped
    IN  IF clean_name \in DOMAIN biblical_books THEN Some(biblical_books[clean_name])
        ELSE None

\* the lookup of the name in the case it was written in
normalizeBookNamesCaseSensitive(book_name) ==
    LET clean_name == CollapseWhitespace(Strip(book_name))
    IN  IF clean_name \in DOMAIN biblical_books THEN Some(biblical_books[clean_name])
        ELSE None

\* the lookup that hands back an unknown name as it came
normalizeBookNamesLenient(book_name) ==
    LET known == normalizeBookNamesNoRetry(RemoveSpaces(book_name))
    IN  IF known # None THEN known ELSE Some(Strip(book_name))

normalizeBookNames(book_name) ==
    LET LookUp(clean_name, no_space) ==
            IF clean_name \in DOMAIN biblical_books THEN Some(biblical_books[clean_name])
            ELSE IF no_space \in DOMAIN biblical_books THEN Some(biblical_books[no_space])
            ELSE None
        Cleaned(clean_name) == LookUp(clean_name, RemoveSpaces(clean_name))
        Numbered(stripped, m) ==
            Cleaned(IF m # None
                    THEN Group(m, 1)[1] \o " " \o Group(m, 2)[1]
                         \o SubSeq(stripped, m[1].end, Len(stripped))
                    ELSE stripped)
        Stripped(stripped) == Numbered(stripped, ReMatch(numbered_book, stripped))
    IN  Stripped(CollapseWhitespace(StrLower(Strip(book_name))))

\* the classification with bible as the default
identifySourceTypeBibleDefault(text) ==
    IF Contains(StrLower(text), "cf.") /\ Contains(text, ";") THEN "mixed" ELSE "bible"

\* the classification without the rule for ";" and ":"
identifySourceTypeNoHeuristic(text) ==
    LET Classified(biblical_match) ==
            IF Contains(StrLower(text), "cf.") /\ Contains(text, ";") THEN "mixed"
            ELSE IF biblical_match # None
                    /\ normalizeBookNames(Group(biblical_match, 1)[1]) # None THEN "bible"
            ELSE "literature"
    IN  Classified(ReSearch(bible_standard, text))

identifySourceType(text) ==
    LET Classified(biblical_match) ==
            IF Contains(StrLower(text), "cf.") /\ Contains(text, ";") THEN "mixed"
            ELSE IF biblical_match # None
                    /\ normalizeBookNames(Group(biblical_match, 1)[1]) # None THEN "bible"
            ELSE IF Contains(text, ";") /\ Contains(text, ":") THEN "bible"
            ELSE "literature"
    IN  Classified(ReSearch(bible_standard, text))

\* the CitationResult dataclass: every field but type defaults to None
CitationResult(type) ==
    [type |-> type, work |-> None, book |-> None, chapter |-> None,
     start_verse |-> None, end_verse |-> None, start_line |-> None,
     end_line |-> None, act |-> None, scene |-> None, book_number |-> None]

\* the default whatever the group holds
IntOrDefault(m, n, dflt) == dflt

\* int(m.group(n)) if m.group(n) else dflt
IntOr(m, n, dflt) == IF Group(m, n) # None THEN ToInt(Group(m, n)[1]) ELSE dflt

\* the single-reference branch of _parseBiblicalCitation
parseSingleBiblical(text) ==
    LET Reference(match, normalized_book, start_verse) ==
            IF match # None /\ normalized_book # None
            THEN <<[CitationResult("bible") EXCEPT
                      !.book = normalized_book,
                      !.chapter = Some(ToInt(Group(match, 2)[1])),
                      !.start_verse = Some(start_verse),
                      !.end_verse = Some(IntOr(match, 4, start_verse))]>>
            ELSE <<>>
        Matched(match) ==
            Reference(match, normalizeBookNames(Group(match, 1)[1]),
                      ToInt(Group(match, 3)[1]))
    IN  Matched(ReMatch(bible_standard, Strip(text)))

\* the loop over the parts that stops after the first part
FirstPartOnly(parts, n) ==
    IF n > 1 THEN <<>> ELSE parseSingleBiblical(Strip(parts[1]))

RECURSIVE parseBiblicalCitation(_), parseBiblicalParts(_, _)
parseBiblicalCitation(text) ==
    IF Contains(text, ";")
    THEN parseBiblicalParts(Split(text, ";"), 1)
    ELSE parseSingleBiblical(text)

parseBiblicalParts(parts, n) ==
    IF n > Len(parts) THEN <<>>
    ELSE parseBiblicalCitation(Strip(parts[n])) \o parseBiblicalParts(parts, n + 1)

\* the reference of a match of the drama, the book/canto and the simple
\* pattern
DramaReference(drama_match, start_line) ==
    <<[CitationResult("literature") EXCEPT
         !.work = Some(Strip(Group(drama_match, 1)[1])),
         !.act = Group(drama_match, 2),
         !.scene = Group(drama_match, 3),
         !.start_line = Some(start_line),
         !.end_line = Some(IntOr(drama_match, 5, start_line))]>>

BookReference(book_match, start_line) ==
    <<[CitationResult("literature") EXCEPT
         !.work = Some(Strip(Group(book_match, 1)[1])),
         !.book_number = Group(book_match, 2),
         !.start_line = Some(start_line),
         !.end_line = Some(IntOr(book_match, 4, start_line))]>>

SimpleReference(simple_match, start_line) ==
    <<[CitationResult("literature") EXCEPT
         !.work = Some(Strip(Group(simple_match, 1)[1])),
         !.start_line = Some(start_line),
         !.end_line = Some(IntOr(simple_match, 3, start_line))]>>

\* the patterns tried in the order simple, drama, book/canto
parseLiterarySimpleFirst(text) ==
    LET TryBook(book_match) ==
            IF book_match # None
            THEN BookReference(book_match, ToInt(Group(book_match, 3)[1]))
            ELSE <<>>
        TryDrama(drama_match) ==
            IF drama_match # None
            THEN DramaReference(drama_match, ToInt(Group(drama_match, 4)[1]))
            ELSE TryBook(ReMatch(literature_book, text))
        TrySimple(simple_match) ==
            IF simple_match # None
            THEN SimpleReference(simple_match, ToInt(Group(simple_match, 2)[1]))
            ELSE TryDrama(ReMatch(literature_drama, text))
    IN  TrySimple(ReMatch(literature_simple, text))

parseLiteraryCitation(text) ==
    LET TrySimple(simple_match) ==
            IF simple_match # None
            THEN SimpleReference(simple_match, ToInt(Group(simple_match, 2)[1]))
            ELSE <<>>
        TryBook(book_match) ==
            IF book_match # None
            THEN BookReference(book_match, ToInt(Group(book_match, 3)[1]))
            ELSE TrySimple(ReMatch(literature_simple, text))
        TryDrama(drama_match) ==
            IF drama_match # None
            THEN DramaReference(drama_match, ToInt(Group(drama_match, 4)[1]))
            ELSE TryBook(ReMatch(literature_book, text))
    IN  TryDrama(ReMatch(literature_drama, text))

\* a side of a mixed citation always taken as literary
parseSideAsLiterary(ref) == parseLiteraryCitation(ref)

\* one side of a mixed citation
parseMixedSide(ref) ==
    IF identifySourceType(ref) = "bible"
    THEN parseBiblicalCitation(ref)
    ELSE parseLiteraryCitation(ref)

parseMixedCitation(text) ==
    LET BothSides(mixed_match) ==
            IF mixed_match # None
            THEN Flatten([g \in 1..2 |-> parseMixedSide(Strip(Group(mixed_match, g)[1]))],
                         1, 2)
            ELSE <<>>
    IN  BothSides(ReMatch(mixed_reference, text))

\* Python truthiness of an Optional[int] and of an Optional[str]
TruthyInt(o) == o # None /\ o[1] # 0
TruthyStr(o) == o # None /\ o[1] # ""

EmptyDict == [x \in {} |-> x]
Entry(key, o, truthy) == IF truthy THEN key :> o[1] ELSE EmptyDict

\* the "Convert to dictionary format" loop body of parseCitation:
\* a key is set only when the field is truthy
CitationDict(c) ==
    ("type" :> c.type)
    @@ Entry("work", c.work, TruthyStr(c.work))
    @@ Entry("book", c.book, TruthyStr(c.book))
    @@ Entry("chapter", c.chapter, TruthyInt(c.chapter))
    @@ Entry("start_verse", c.start_verse, TruthyInt(c.start_verse))
    @@ Entry("end_verse", c.end_verse, TruthyInt(c.end_verse))
    @@ Entry("start_line", c.start_line, TruthyInt(c.start_line))
    @@ Entry("end_line", c.end_line, TruthyInt(c.end_line))
    @@ Entry("act", c.act, TruthyStr(c.act))
    @@ Entry("scene", c.scene, TruthyStr(c.scene))
    @@ Entry("book_number", c.book_number, TruthyStr(c.book_number))

parseCitation(footnote_text) ==
    LET AsDicts(text, source_type, citations) ==
            [citations |-> [i \in 1..Len(citations) |-> CitationDict(citations[i])],
             source_type |-> source_type,
             original_text |-> text]
        ParsedAs(text, source_type) ==
            AsDicts(text, source_type,
                    CASE source_type = "bible" -> parseBiblicalCitation(text)
                      [] source_type = "literature" -> parseLiteraryCitation(text)
                      [] source_type = "mixed" -> parseMixedCitation(text))
        Stripped(text) == ParsedAs(text, identifySourceType(text))
    IN  Stripped(Strip(footnote_text))

----------------------------------------------------------------------------
(* Exact arithmetic for the confidence scores                               *)
(* A score is a fraction [n, d] in lowest terms with d > 0.                *)

RECURSIVE GCD(_, _)
GCD(a, b) == IF b = 0 THEN a ELSE GCD(b, a % b)

Abs(x) == IF x < 0 THEN -x ELSE x

Frac(n, d) == LET g == GCD(Abs(n), d) IN [n |-> n \div g, d |-> d \div g]

FAdd(a, b) ==
    LET g == GCD(a.d, b.d)
    IN  Frac(a.n * (b.d \div g) + b.n * (a.d \div g), (a.d \div g) * b.d)

FMul(a, b) ==
    LET g1 == GCD(Abs(a.n), b.d)
        g2 == GCD(Abs(b.n), a.d)
    IN  [n |-> (a.n \div g1) * (b.n \div g2), d |-> (a.d \div g2) * (b.d \div g1)]

\* a < b, by comparing the integer parts and then the remainders'
\* reciprocals, which needs no product of the two denominators
RECURSIVE FLessPos(_, _, _, _)
FLessPos(p, q, r, s) ==
    IF p \div q # r \div s THEN p \div q < r \div s
    ELSE IF r % s = 0 THEN FALSE
    ELSE IF p % q = 0 THEN TRUE
    ELSE FLessPos(s, r % s, q, p % q)

FLess(a, b) ==
    IF a.n < 0 /\ b.n >= 0 THEN TRUE
    ELSE IF a.n >= 0 /\ b.n < 0 THEN FALSE
    ELSE IF a.n < 0 THEN FLessPos(-b.n, b.d, -a.n, a.d)
    ELSE FLessPos(a.n, a.d, b.n, b.d)

FMin(a, b) == IF FLess(b, a) THEN b ELSE a
FMax(a, b) == IF FLess(a, b) THEN b ELSE a

Zero == Frac(0, 1)
One == Frac(1, 1)

\* round(x, 3) for 0 <= x, in thousandths, the digits by long division.
\* The program computes x in binary floating point, so a value that is
\* exactly halfway between two thousandths here is a little below or a
\* little above halfway there, and goes to either: tie_up says which.
Thousandths(x) ==
    LET r0 == x.n % x.d
        r1 == (r0 * 10) % x.d
        r2 == (r1 * 10) % x.d
    IN  [whole |-> (x.n \div x.d) * 1000 + ((r0 * 10) \div x.d) * 100
                   + ((r1 * 10) \div x.d) * 10 + ((r2 * 10) \div x.d),
         rest |-> Frac((r2 * 10) % x.d, x.d)]

IsTie(x) == Thousandths(x).rest = Frac(1, 2)

Round3(x, tie_up) ==
    LET th == Thousandths(x)
    IN  IF FLess(Frac(1, 2), th.rest) \/ (th.rest = Frac(1, 2) /\ tie_up)
        THEN th.whole + 1 ELSE th.whole

----------------------------------------------------------------------------
(* More of Python's str helpers                                            *)

RECURSIVE IntToStr(_)
IntToStr(n) ==
    IF n < 0 THEN "-" \o IntToStr(-n)
    ELSE IF n < 10 THEN Ch("0123456789", n + 1)
    ELSE IntToStr(n \div 10) \o Ch("0123456789", (n % 10) + 1)

RECURSIVE Join(_, _)
Join(parts, sep) ==
    IF Len(parts) = 0 THEN ""
    ELSE IF Len(parts) = 1 THEN parts[1]
    ELSE parts[1] \o sep \o Join(Tail(parts), sep)

StartsWith(s, prefix) == Len(prefix) <= Len(s) /\ SubSeq(s, 1, Len(prefix)) = prefix
EndsWith(s, suffix) ==
    Len(suffix) <= Len(s) /\ SubSeq(s, Len(s) - Len(suffix) + 1, Len(s)) = suffix

\* sub in s
IsIn(sub, s) == sub = "" \/ Contains(s, sub)

\* the characters of s at the positions in keep
RECURSIVE SelectChars(_, _, _, _)
SelectChars(s, keep, lo, hi) ==
    IF lo > hi THEN ""
    ELSE IF lo = hi THEN (IF lo \in keep THEN Ch(s, lo) ELSE "")
    ELSE SelectChars(s, keep, lo, (lo + hi) \div 2)
         \o SelectChars(s, keep, ((lo + hi) \div 2) + 1, hi)

\* the elements of a sequence that are not None, unwrapped
RECURSIVE Somes(_, _, _)
Somes(os, lo, hi) ==
    IF lo > hi THEN <<>>
    ELSE IF lo = hi THEN os[lo]
    ELSE Somes(os, lo, (lo + hi) \div 2) \o Somes(os, ((lo + hi) \div 2) + 1, hi)

----------------------------------------------------------------------------
(* difflib.SequenceMatcher(None, a, b).ratio()                             *)
(* Both strings are far shorter than the 200 characters from which the     *)
(* automatic junk heuristic applies, so no character is junk.              *)

Chars(s) == [i \in 1..Len(s) |-> Ch(s, i)]

\* the length of the longest common run of a from i and b from j, inside
\* a[..ahi] and b[..bhi]
CommonLen(a, b, i, j, ahi, bhi) ==
    LET lim == IF ahi - i < bhi - j THEN ahi - i + 1 ELSE bhi - j + 1
    IN  CHOOSE k \in 0..lim :
            /\ k = lim \/ a[i + k] # b[j + k]
            /\ \A h \in 0..(k - 1) : a[i + h] = b[j + h]

\* find_longest_match over a[alo..ahi] and b[blo..bhi]: of the longest
\* blocks the one that starts earliest in a, and of those the one that
\* starts earliest in b
FindLongestMatch(a, b, alo, ahi, blo, bhi) ==
    LET len == [i \in alo..ahi |-> [j \in blo..bhi |-> CommonLen(a, b, i, j, ahi, bhi)]]
        best == Last({len[i][j] : i \in alo..ahi, j \in blo..bhi} \cup {0})
        i0 == First({i \in alo..ahi : \E j \in blo..bhi : len[i][j] = best})
        j0 == First({j \in blo..bhi : len[i0][j] = best})
    IN  IF best = 0 THEN [i |-> alo, j |-> blo, size |-> 0]
        ELSE [i |-> i0, j |-> j0, size |-> best]

\* the total size of the matching blocks of a[alo..ahi] and b[blo..bhi]:
\* the longest block, then the blocks to its left and those to its right
RECURSIVE MatchedChars(_, _, _, _, _, _)
MatchedChars(a, b, alo, ahi, blo, bhi) ==
    IF alo > ahi \/ blo > bhi THEN 0
    ELSE LET Blocks(m) ==
                 IF m.size = 0 THEN 0
                 ELSE m.size
                      + MatchedChars(a, b, alo, m.i - 1, blo, m.j - 1)
                      + MatchedChars(a, b, m.i + m.size, ahi, m.j + m.size, bhi)
         IN  Blocks(FindLongestMatch(a, b, alo, ahi, blo, bhi))

Ratio(a, b) ==
    IF Len(a) + Len(b) = 0 THEN One
    ELSE Frac(2 * MatchedChars(Chars(a), Chars(b), 1, Len(a), 1, Len(b)), Len(a) + Len(b))

----------------------------------------------------------------------------
(* CitationExtractionEngine                                                *)

MaxCandidates == 5
TopMatches == 3

WordChar == Letter \cup Digit \cup {"_"}

\* the positions of s inside a whole word that is one of words
InWords(s, words) ==
    {h \in 1..Len(s) :
        \E i \in 1..h, j \in h..Len(s) :
            /\ \A g \in i..j : Ch(s, g) \in WordChar
            /\ i = 1 \/ Ch(s, i - 1) \notin WordChar
            /\ j = Len(s) \/ Ch(s, j + 1) \notin WordChar
            /\ SubSeq(s, i, j) \in words}

\* _normalizeTitle: lower case, the articles (whole words) removed, then
\* everything but word characters and whitespace removed, whitespace
\* collapsed and stripped
normalizeTitle(title) ==
    LET lower == StrLower(title)
        no_articles ==
            SelectChars(lower, (1..Len(lower)) \ InWords(lower, {"the", "a", "an"}),
                        1, Len(lower))
        no_punct ==
            SelectChars(no_articles,
                        {i \in 1..Len(no_articles) :
                            Ch(no_articles, i) \in WordChar \cup Whitespace},
                        1, Len(no_articles))
    IN  Strip(CollapseWhitespace(no_punct))

\* by\s+([A-Za-z\s.]+), case ignored
by_author ==
    [groups |-> 1,
     re |-> RCat(<<RWord("by"), RPlus(Ws),
                   RGrp(1, RPlus(RSet(Letter \cup Whitespace \cup {"."})))>>)]

header_words == {"project gutenberg", "ebook", "produced by"}

\* str.replace of one character by another
RECURSIVE ReplaceCh(_, _, _, _, _)
ReplaceCh(s, old, new, lo, hi) ==
    IF lo > hi THEN ""
    ELSE IF lo = hi THEN (IF Ch(s, lo) = old THEN new ELSE Ch(s, lo))
    ELSE ReplaceCh(s, old, new, lo, (lo + hi) \div 2)
         \o ReplaceCh(s, old, new, ((lo + hi) \div 2) + 1, hi)

\* str.title(): a letter is upper case when no letter precedes it, and
\* lower case otherwise
RECURSIVE TitleCase(_, _, _)
TitleCase(s, lo, hi) ==
    IF lo > hi THEN ""
    ELSE IF lo = hi
    THEN (IF lo > 1 /\ Ch(s, lo - 1) \in Letter THEN ToLowerCh(Ch(s, lo))
          ELSE ToUpperCh(Ch(s, lo)))
    ELSE TitleCase(s, lo, (lo + hi) \div 2) \o TitleCase(s, ((lo + hi) \div 2) + 1, hi)

\* the author a line names, "" when it names none
AuthorIn(line) ==
    LET Named(author_match) ==
            IF IsIn("by ", StrLower(line)) /\ author_match # None
            THEN Strip(Group(author_match, 1)[1]) ELSE ""
    IN  Named(ReSearch(by_author, line))

IsTitleLine(line) ==
    /\ line # ""
    /\ ~StartsWith(line, "Project Gutenberg")
    /\ \A skip \in header_words : ~IsIn(skip, StrLower(line))

\* _extractWorkMetadata of a file [stem, lines, readable]: the title is the
\* first of the first ten lines that is no header, the author the first
\* one a line names; a file that cannot be opened leaves the defaults
extractWorkMetadata(file) ==
    LET Metadata(head, titles, author, authors, filename) ==
            [title |-> IF titles # {} THEN head[First(titles)]
                       ELSE TitleCase(filename, 1, Len(filename)),
             author |-> IF authors # {} THEN author[First(authors)] ELSE "",
             source |-> "gutenberg",
             lines |-> Len(file.lines)]
        Named(head, author) ==
            Metadata(head, {i \in DOMAIN head : IsTitleLine(head[i])},
                     author, {i \in DOMAIN head : author[i] # ""},
                     ReplaceCh(ReplaceCh(file.stem, "_", " ", 1, Len(file.stem)),
                               "-", " ", 1, Len(file.stem)))
        FirstTen(head) == Named(head, [i \in DOMAIN head |-> AuthorIn(head[i])])
    IN  IF ~file.readable
        THEN [title |-> "", author |-> "", source |-> "gutenberg", lines |-> 0]
        ELSE FirstTen([i \in 1..(IF Len(file.lines) < 10 THEN Len(file.lines) ELSE 10) |->
                          Strip(file.lines[i])])

\* _indexLiteraryWorks over the files of <corpus>/cleaned; an entry also
\* carries the file its file_path names
indexLiteraryWorks(files) ==
    LET Indexed(file, metadata) ==
            [work_id |-> file.stem,
             file_path |-> "test_corpus/cleaned/" \o file.stem \o ".txt",
             metadata |-> metadata,
             normalized_title |-> normalizeTitle(metadata.title),
             lines |-> file.lines,
             readable |-> file.readable]
    IN  [i \in 1..Len(files) |-> Indexed(files[i], extractWorkMetadata(files[i]))]

\* text has "[", later on the same line "]": re.search(r'\[.*?\]', text)
HasBracketed(text) ==
    \E i \in 1..Len(text) :
        /\ Ch(text, i) = "["
        /\ \E j \in (i + 1)..Len(text) :
              /\ Ch(text, j) = "]"
              /\ \A h \in (i + 1)..(j - 1) : Ch(text, h) # "\n"

HasPunctuation(text) == \E i \in 1..Len(text) : Ch(text, i) \in {".", "!", "?"}

calculateTextQuality(text) ==
    IF text = "" THEN Zero
    ELSE LET length == FMin(One, Frac(Len(text), 200))
             completeness == IF EndsWith(text, "...") THEN Frac(8, 10) ELSE One
             readability == IF HasPunctuation(text) THEN One ELSE Frac(6, 10)
             cleanliness == IF HasBracketed(text) THEN Frac(7, 10) ELSE One
         IN  FMul(FAdd(FAdd(length, completeness), FAdd(readability, cleanliness)),
                  Frac(1, 4))

getSourceReliability(source) ==
    IF StartsWith(source, "bible:") THEN Frac(95, 100)
    ELSE IF StartsWith(source, "gutenberg:") THEN Frac(85, 100)
    ELSE Frac(7, 10)

\* metadata.get(field) is truthy; only "chapter" and "total_lines" hold
\* numbers
Truthy(metadata, field) ==
    /\ field \in DOMAIN metadata
    /\ IF field \in {"chapter", "total_lines"} THEN metadata[field] # 0
       ELSE metadata[field] # ""

getMetadataCompletenessByKey(metadata) ==
    LET required_fields ==
            IF "book" \notin DOMAIN metadata THEN {"title", "author"}
            ELSE {"book", "chapter", "verses"}
    IN  Frac(Cardinality(required_fields \cap DOMAIN metadata), Cardinality(required_fields))

getMetadataCompleteness(metadata) ==
    LET required_fields ==
            IF "book" \notin DOMAIN metadata THEN {"title", "author"}
            ELSE {"book", "chapter", "verses"}
    IN  Frac(Cardinality({f \in required_fields : Truthy(metadata, f)}),
             Cardinality(required_fields))

\* metadata.get(field, "")
GetStr(metadata, field) == IF field \in DOMAIN metadata THEN metadata[field] ELSE ""

\* the score without the author's part
getCitationMatchScoreByTitle(candidate, original_citation) ==
    IF IsIn(StrLower(GetStr(candidate.metadata, "title")), StrLower(original_citation))
    THEN Frac(8, 10) ELSE Frac(5, 10)

getCitationMatchScore(candidate, original_citation) ==
    LET citation_lower == StrLower(original_citation)
        title == IF IsIn(StrLower(GetStr(candidate.metadata, "title")), citation_lower)
                 THEN Frac(3, 10) ELSE Zero
        author == IF IsIn(StrLower(GetStr(candidate.metadata, "author")), citation_lower)
                  THEN Frac(2, 10) ELSE Zero
    IN  FMin(One, FAdd(Frac(5, 10), FAdd(title, author)))

\* min(1.0, max(0.0, final_confidence))
ClampAbove(final_confidence) == FMin(One, final_confidence)

Clamp(final_confidence) == FMin(One, FMax(Zero, final_confidence))

calculateConfidenceScore(candidate, original_citation) ==
    LET weighted_score ==
            FAdd(FAdd(FMul(calculateTextQuality(candidate.text), Frac(3, 10)),
                      FMul(getSourceReliability(candidate.source), Frac(2, 10))),
                 FAdd(FMul(getMetadataCompleteness(candidate.metadata), Frac(2, 10)),
                      FMul(getCitationMatchScore(candidate, original_citation),
                           Frac(3, 10))))
        final_confidence == FMul(FAdd(candidate.confidence, weighted_score), Frac(1, 2))
    IN  Clamp(final_confidence)

\* list.sort(key=confidence, reverse=True): highest first, equal
\* confidences in their order in the list
SortByConfidence(cs) ==
    LET before(i, j) ==
            \/ FLess(cs[j].confidence, cs[i].confidence)
            \/ cs[j].confidence = cs[i].confidence /\ i < j
        rank == [i \in 1..Len(cs) |-> 1 + Cardinality({j \in 1..Len(cs) : before(j, i)})]
    IN  [k \in 1..Len(cs) |-> cs[CHOOSE i \in 1..Len(cs) : rank[i] = k]]

\* the recalculation of rankCandidates without its sort
rankWithoutSorting(candidates) ==
    [i \in 1..Len(candidates) |->
        [candidates[i] EXCEPT !.confidence = calculateConfidenceScore(candidates[i], "")]]

\* candidate.confidence = self.calculateConfidenceScore(candidate, ""), for
\* each candidate of the list
keepConfidence(candidates) == candidates

rescore(candidates) ==
    [i \in 1..Len(candidates) |->
        [candidates[i] EXCEPT !.confidence = calculateConfidenceScore(candidates[i], "")]]

rankCandidates(candidates) == SortByConfidence(rescore(candidates))

\* the assignments that the operation by makes to the confidence of the
\* candidates of a list, a candidate named by its place in the list the
\* caller collects
Writes(candidates, before, by) ==
    [k \in 1..Len(candidates) |->
        [candidate |-> before + k, confidence |-> candidates[k].confidence, by |-> by]]

\* ^\s*\d+\s*[.:]?\s*
numbered_lines ==
    [groups |-> 0,
     re |-> RCat(<<RStar(Ws), Nums, RStar(Ws), ROpt(RSet({".", ":"})), RStar(Ws)>>)]

\* _cleanPassageText: the leading line number is removed from each line,
\* the line stripped, empty lines skipped, the rest joined by newlines
CleanLineKeepingNumber(line) == Strip(line)

CleanLine(line) ==
    LET Cut(m) == Strip(IF m # None THEN SubSeq(line, m[1].end, Len(line)) ELSE line)
    IN  Cut(ReMatch(numbered_lines, line))

cleanPassageText(lines) ==
    LET Kept(cleaned) == IF cleaned # "" THEN <<cleaned>> ELSE <<>>
    IN  Join(Somes([i \in 1..Len(lines) |-> Kept(CleanLine(lines[i]))], 1, Len(lines)), "\n")

WorkIds(works) == {works[w].work_id : w \in 1..Len(works)}
WorkInfo(works, work_id) == works[CHOOSE w \in 1..Len(works) : works[w].work_id = work_id]

\* f"{start_line}-{end_line}"
LinesLabelSingle(start_line, end_line) ==
    IF start_line # end_line
    THEN IntToStr(start_line) \o "-" \o IntToStr(end_line)
    ELSE IntToStr(start_line)

LinesLabel(start_line, end_line) == IntToStr(start_line) \o "-" \o IntToStr(end_line)

\* start_line <= 0 or end_line > len(lines)
OutOfRangeZeroBased(start_line, end_line, lines) ==
    start_line < 0 \/ end_line >= Len(lines)

OutOfRange(start_line, end_line, lines) ==
    start_line <= 0 \/ end_line > Len(lines)

\* lines[start_line-1:end_line]
PassageLinesFromNext(lines, start_line, end_line) == SubSeq(lines, start_line + 1, end_line)

PassageLines(lines, start_line, end_line) == SubSeq(lines, start_line, end_line)

extractLiteraryPassage(works, work_id, start_line, end_line) ==
    LET Passage(work_info, passage_text) ==
            Some([source |-> "gutenberg:" \o work_id,
                  confidence |-> calculateTextQuality(passage_text),
                  text |-> passage_text,
                  metadata |->
                      ("lines" :> LinesLabel(start_line, end_line))
                      @@ ("author" :> work_info.metadata.author)
                      @@ ("title" :> work_info.metadata.title)
                      @@ ("source_file" :> work_info.file_path)
                      @@ ("total_lines" :> Len(work_info.lines)),
                  start_position |-> Some(start_line),
                  end_position |-> Some(end_line)])
        Opened(work_info) ==
            IF ~work_info.readable THEN None
            ELSE IF OutOfRange(start_line, end_line, work_info.lines) THEN None
            ELSE Passage(work_info,
                         cleanPassageText(PassageLines(work_info.lines, start_line, end_line)))
    IN  IF work_id \notin WorkIds(works) THEN None
        ELSE Opened(WorkInfo(works, work_id))

biblical_translations == {"ESV", "NIV", "KJV", "NASB", "NRSV"}

\* the sample passages of _generateSampleBiblicalText
sample_passages ==
    <<[book |-> "Genesis", chapter |-> 1, verses |->
        (1 :> "In the beginning, God created the heavens and the earth.")
        @@ (2 :> "The earth was without form and void, and darkness was over the face of the deep.")
        @@ (3 :> "And God said, \"Let there be light,\" and there was light.")],
      [book |-> "Matthew", chapter |-> 5, verses |->
        (3 :> "Blessed are the poor in spirit, for theirs is the kingdom of heaven.")
        @@ (4 :> "Blessed are those who mourn, for they shall be comforted.")
        @@ (5 :> "Blessed are the meek, for they shall inherit the earth.")],
      [book |-> "Romans", chapter |-> 8, verses |->
        (28 :> "And we know that for those who love God all things work together for good, for those who are called according to his purpose.")],
      [book |-> "1 Corinthians", chapter |-> 13, verses |->
        (4 :> "Love is patient and kind; love does not envy or boast; it is not arrogant")
        @@ (5 :> "or rude. It does not insist on its own way; it is not irritable or resentful;")
        @@ (6 :> "it does not rejoice at wrongdoing, but rejoices with the truth.")
        @@ (7 :> "Love bears all things, believes all things, hopes all things, endures all things.")]>>

\* f"{start}-{end}" if start != end else str(start)
VerseRangeAlways(start_verse, end_verse) ==
    IntToStr(start_verse) \o "-" \o IntToStr(end_verse)

VerseRange(start_verse, end_verse) ==
    IF start_verse # end_verse
    THEN IntToStr(start_verse) \o "-" \o IntToStr(end_verse)
    ELSE IntToStr(start_verse)

generateSampleBiblicalText(book, chapter, start_verse, end_verse, translation) ==
    LET keys == {k \in 1..Len(sample_passages) :
                    sample_passages[k].book = book /\ sample_passages[k].chapter = chapter}
        verses == sample_passages[CHOOSE k \in keys : TRUE].verses
        passage_verses ==
            [n \in 1..(end_verse - start_verse + 1) |->
                LET verse_num == start_verse + n - 1
                IN  IntToStr(verse_num) \o " "
                    \o (IF verse_num \in DOMAIN verses THEN verses[verse_num]
                        ELSE "[Verse text not available in demo]")]
    IN  IF keys = {}
        THEN book \o " " \o IntToStr(chapter) \o ":" \o VerseRange(start_verse, end_verse)
        ELSE Join(passage_verses, " ")

isValidBiblicalReference(book, chapter, start_verse, end_verse) ==
    IF chapter <= 0 \/ start_verse <= 0 \/ end_verse < start_verse THEN FALSE
    ELSE normalizeBookNames(book) # None

extractBiblicalPassage(book, chapter, start_verse, end_verse, translation_arg) ==
    LET translation ==
            IF translation_arg \notin biblical_translations THEN "ESV" ELSE translation_arg
        passage_text ==
            generateSampleBiblicalText(book, chapter, start_verse, end_verse, translation)
    IN  IF passage_text = "" THEN None
        ELSE Some([source |-> "bible:" \o StrLower(translation),
                   confidence |->
                       IF isValidBiblicalReference(book, chapter, start_verse, end_verse)
                       THEN Frac(95, 100) ELSE Frac(3, 10),
                   text |-> passage_text,
                   metadata |->
                       ("book" :> book) @@ ("chapter" :> chapter)
                       @@ ("verses" :> VerseRange(start_verse, end_verse))
                       @@ ("translation" :> translation) @@ ("source" :> "bible_api"),
                   start_position |-> None,
                   end_position |-> None])

\* work_scores[:3]
TopOfAll(work_scores) == work_scores

TopOf(work_scores) ==
    SubSeq(work_scores, 1,
           IF Len(work_scores) < TopMatches THEN Len(work_scores) ELSE TopMatches)

\* _findLiteraryMatches: the works whose title is similar enough, the most
\* similar first, at most three of them; a work that yields a passage
\* gives a candidate whose confidence is scaled by the similarity. calls
\* lists the calls of extractLiteraryPassage in the order they are made
findLiteraryMatches(works, work_title, citation_data) ==
    LET start_line == IF "start_line" \in DOMAIN citation_data
                      THEN citation_data["start_line"] ELSE 1
        end_line == IF "end_line" \in DOMAIN citation_data
                    THEN citation_data["end_line"] ELSE start_line
        Weighted(candidate, similarity) ==
            IF candidate = None THEN <<>>
            ELSE <<[candidate[1] EXCEPT !.confidence = FMul(@, similarity)]>>
        Found(top) ==
            [candidates |->
                Somes([t \in 1..Len(top) |->
                          Weighted(extractLiteraryPassage(works, works[top[t].work].work_id,
                                                          start_line, end_line),
                                   top[t].confidence)],
                      1, Len(top)),
             calls |->
                [t \in 1..Len(top) |-> <<works[top[t].work].work_id, start_line, end_line>>]]
        Top(work_scores) == Found(TopOf(work_scores))
        Scored(similarity) ==
            Top(SortByConfidence(
                    Somes([w \in 1..Len(works) |->
                              IF FLess(Frac(3, 10), similarity[w])
                              THEN <<[work |-> w, confidence |-> similarity[w]]>> ELSE <<>>],
                          1, Len(works))))
        Titled(normalized_title) ==
            Scored([w \in 1..Len(works) |->
                       Ratio(normalized_title, works[w].normalized_title)])
    IN  Titled(normalizeTitle(work_title))

\* one pass of the loop of generatePassageCandidates over a parsed
\* citation; a key the parser left out of the dictionary raises KeyError
NoCandidates ==
    [candidates |-> <<>>, calls |-> <<>>, passages |-> <<>>, writes |-> <<>>,
     raised |-> "none"]

CandidatesFor(works, parsed_citation, acc) ==
    IF parsed_citation["type"] = "bible"
    THEN IF {"book", "chapter", "start_verse", "end_verse"} \subseteq DOMAIN parsed_citation
         THEN LET biblical_candidate ==
                      extractBiblicalPassage(parsed_citation["book"], parsed_citation["chapter"],
                                             parsed_citation["start_verse"],
                                             parsed_citation["end_verse"], "ESV")
              IN  [acc EXCEPT
                     !.candidates = @ \o biblical_candidate,
                     !.calls = Append(@, <<parsed_citation["book"], parsed_citation["chapter"],
                                           parsed_citation["start_verse"],
                                           parsed_citation["end_verse"]>>)]
         ELSE [acc EXCEPT !.raised = "KeyError"]
    ELSE IF parsed_citation["type"] = "literature"
    THEN IF "work" \in DOMAIN parsed_citation
         THEN LET Matched(literary) ==
                      [acc EXCEPT
                         !.candidates = @ \o literary.candidates,
                         !.passages = @ \o literary.calls,
                         !.writes = @ \o Writes(literary.candidates, Len(acc.candidates),
                                              "_findLiteraryMatches")]
              IN  Matched(findLiteraryMatches(works, parsed_citation["work"],
                                              parsed_citation))
         ELSE [acc EXCEPT !.raised = "KeyError"]
    ELSE acc

RECURSIVE CandidatesLoop(_, _, _, _)
CandidatesLoop(works, citations, n, acc) ==
    IF acc.raised # "none" \/ n > Len(citations) THEN acc
    ELSE CandidatesLoop(works, citations, n + 1, CandidatesFor(works, citations[n], acc))

\* ranked_candidates[:max_candidates]
TruncateNever(ranked_candidates, max_candidates) == ranked_candidates

Truncate(ranked_candidates, max_candidates) ==
    SubSeq(ranked_candidates, 1,
           IF max_candidates < 0 THEN Len(ranked_candidates) + max_candidates
           ELSE IF Len(ranked_candidates) < max_candidates
           THEN Len(ranked_candidates) ELSE max_candidates)

generatePassageCandidates(works, citation_text, max_candidates) ==
    LET Collected(acc) ==
            IF acc.raised # "none" THEN acc
            ELSE [acc EXCEPT
                    !.candidates = Truncate(rankCandidates(acc.candidates), max_candidates),
                    !.writes = @ \o Writes(rescore(acc.candidates), 0, "rankCandidates")]
    IN  Collected(CandidatesLoop(works, parseCitation(citation_text).citations, 1,
                                 NoCandidates))

\* the confidences of the candidates that are a rounding tie
Ties(candidates) ==
    {candidates[i].confidence : i \in {h \in 1..Len(candidates) : IsTie(candidates[h].confidence)}}

\* candidate_dicts[0] if candidate_dicts else None
BestMatchLast(candidate_dicts) ==
    IF Len(candidate_dicts) > 0 THEN Some(candidate_dicts[Len(candidate_dicts)]) ELSE None

BestMatch(candidate_dicts) ==
    IF Len(candidate_dicts) > 0 THEN Some(candidate_dicts[1]) ELSE None

\* the rest of extractPassageFromCitation after generatePassageCandidates
\* gave got, the ties of the values in up rounded up: [result, calls,
\* raised], result being None when an exception left the call
PassageResult(citation_text, got, up) ==
    LET candidate_dicts ==
            [i \in 1..Len(got.candidates) |->
                [source |-> got.candidates[i].source,
                 confidence |-> Round3(got.candidates[i].confidence,
                                      got.candidates[i].confidence \in up),
                 text |-> got.candidates[i].text,
                 metadata |-> got.candidates[i].metadata]]
    IN  IF got.raised # "none"
        THEN [result |-> None, calls |-> got.calls, passages |-> got.passages,
              writes |-> got.writes, raised |-> got.raised]
        ELSE [result |-> Some([original_citation |-> citation_text,
                               candidates |-> candidate_dicts,
                               best_match |-> BestMatch(candidate_dicts)]),
              calls |-> got.calls,
              passages |-> got.passages,
              writes |-> got.writes,
              raised |-> "none"]

extractPassageFromCitation(works, citation_text, up) ==
    PassageResult(citation_text,
                  generatePassageCandidates(works, citation_text, MaxCandidates), up)

----------------------------------------------------------------------------
(* The citations the operations are called with                            *)

MaxNum == 2
MaxSegs == 3

NumStrs == {IntToStr(n) : n \in 0..MaxNum}
RangeStrs == NumStrs \cup {n \o "-" \o m : n, m \in NumStrs}

BookTokens == {"Genesis", "gen", "1 Cor", "Song of Solomon", "Invalid"}
Titles == {"Hamlet", "Henry V", "paradise lost", "Absalom and Achitophel"}
Periods == {"", "."}
Numerals == {"Book I, ", "IX.", "Book 2, ", "2."}
SegTokens == {"Romans 8:28", "1 Cor 13:4-7", "Invalid 1:2", "Gen 2:0", "Hamlet 5-6"}
RefTokens == {"Genesis 3:15", "1 Cor 13:4-7", "Gen 0:1", "Hamlet 5-6",
              "Paradise Lost IX.1033-1045", "Hamlet Act 3 Scene 1, 56-88",
              "Invalid Reference"}

BibleCitation(b, c, r) == b \o " " \o c \o ":" \o r
SimpleCitation(t, p, r, q) == t \o p \o " " \o r \o q
DramaCitation(t, a, sc, r) == t \o " Act " \o a \o " Scene " \o sc \o ", " \o r
BookCitation(t, nm, r) == t \o " " \o nm \o r
MixedCitation(a, b) == "cf. " \o a \o "; " \o b

SegSeqs == UNION {[1..k -> SegTokens] : k \in 2..MaxSegs}

BibleCitations == {BibleCitation(b, c, r) : b \in BookTokens, c \in NumStrs, r \in RangeStrs}
SimpleCitations ==
    {SimpleCitation(t, p, r, q) : t \in Titles, p \in Periods, r \in RangeStrs, q \in Periods}
DramaCitations ==
    {DramaCitation(t, a, "1", r) : t \in Titles, a \in NumStrs, r \in RangeStrs}
BookCitations == {BookCitation("Paradise Lost", nm, r) : nm \in Numerals, r \in RangeStrs}
ChainedCitations == {Join(segs, "; ") : segs \in SegSeqs}
MixedCitations == {MixedCitation(a, b) : a, b \in RefTokens}
OtherCitations ==
    {"", "Not a citation at all", "Genesis", "Paradise Lost", "Invalid 99:99-100",
     "Genesis 1:1-3", "Matt 5:3-12", "Romans 8:28", "Romans 8:28; 1 Cor 13:4-7",
     "Genesis 1:1-3; Romans 8:28", "cf. Invalid Reference; Another Invalid",
     "  Absalom and Achitophel 7-8 ", "see Genesis 1:1", "x1 Cor 1:1",
     "Foo; Genesis 1:1", "Foo 1:1; Bar", "Hamlet 5-6 and following",
     "Hamlet Act 3 Scene 1, 56-88", "cf. Genesis 3:15; Paradise Lost IX.1033-1045",
     "Gen 1:1; cf. Hamlet 5", "Absalom and Achitophel 3-4", "The 1-2",
     "Absalom and Achitophel 7-8", "Absalom and Achitophel 10-11",
     "Gen 1:1; Gen 1:2; Gen 1:3; Matt 5:3; Matt 5:4; Rom 8:28; 1 Cor 13:4",
     "Hamlet and Absalom 2-4", "CF. Genesis 3:15; Hamlet 5-6", "cf. Genesis 3:15",
     "Cf Genesis 1:1; Hamlet 5-6", "Invalid 1:2; Foo", "Hamlet 5-6; Macbeth 1-2",
     "Henry V. 1-2", "Henry V, 3", "cf. Genesis 1:1; Hamlet 1-2", "(Genesis 1:1)"}

Citations ==
    BibleCitations \cup SimpleCitations \cup DramaCitations \cup BookCitations
    \cup ChainedCitations \cup MixedCitations \cup OtherCitations

\* the files of test_corpus/cleaned, in the order the directory lists them
Corpus ==
    <<[stem |-> "absalom_and_achitophel", readable |-> TRUE,
       lines |-> <<"Absalom & Achitophel\n",
                   "   1  In pious times, ere priestcraft did begin,\n",
                   "\n",
                   "2. Before polygamy was made a sin;\n",
                   "by John Dryden\n",
                   "  6. \n",
                   "When man on many multiplied his kind,\n",
                   "Ere one to one was cursedly confined;\n",
                   "9: When nature prompted and no law denied\n",
                   "Promiscuous use of concubine and bride;\n">>],
      [stem |-> "hamlet", readable |-> TRUE,
       lines |-> <<"HAMLET\n",
                   "12: To be, or not to be [...]\n">>],
      [stem |-> "the", readable |-> FALSE,
       lines |-> <<>>],
      [stem |-> "paradise-lost", readable |-> TRUE,
       lines |-> <<"Project Gutenberg eBook\n",
                   "\n">>]>>

\* a larger directory: the same files and two more editions of a play
Library ==
    Corpus
    \o <<[stem |-> "hamlet_q1", readable |-> TRUE,
          lines |-> <<"Hamlet Q1\n",
                      "To be, or not to be, I there's the point,\n">>],
         [stem |-> "amleth", readable |-> TRUE,
          lines |-> <<"Amleth\n">>]>>

\* the arguments of the operations that are called directly
BookNameInputs ==
    CanonicalBooks \cup BookTokens
    \cup {"", "  GENESIS ", "1Cor", "1  cor", "song  of solomon", "Gen.", "3 Jn", "Hamlet"}

WorkIdInputs == {Corpus[i].stem : i \in 1..Len(Corpus)} \cup {"missing"}
LineInputs == (-1..(MaxNum + 1)) \cup {7, 8, 10, 11}

PriorInputs == {Frac(-1, 1), Zero, Frac(95, 100), Frac(3, 1)}
TextInputs ==
    {"", "To be", "To be, or not to be.", "He said [...] and left...",
     sample_passages[1].verses[1] \o " " \o sample_passages[1].verses[2] \o " "
     \o sample_passages[4].verses[7]}
SourceInputs == {"bible:esv", "gutenberg:hamlet", "manual"}
MetadataInputs ==
    {EmptyDict,
     ("title" :> "Hamlet") @@ ("author" :> "Shakespeare"),
     ("title" :> "Hamlet") @@ ("author" :> ""),
     ("title" :> "") @@ ("author" :> "Dryden"),
     ("book" :> "Genesis") @@ ("chapter" :> 1) @@ ("verses" :> "1-3")}
OriginalCitationInputs == {"", "Hamlet 1-2", "hamlet by shakespeare 3"}

Candidate(source, confidence, text, metadata) ==
    [source |-> source, confidence |-> confidence, text |-> text, metadata |-> metadata,
     start_position |-> None, end_position |-> None]

CandidateInputs ==
    {Candidate(s, p, t, md) :
        s \in SourceInputs, p \in PriorInputs, t \in TextInputs, md \in MetadataInputs}

\* the candidates that are ranked: two of them differ in their translation
\* only, and so have the same recomputed confidence
MaxRanked == 3
MaxRankCalls == 3
RankInputs ==
    {Candidate("bible:esv", Frac(95, 100), "1 In the beginning.",
               ("book" :> "Genesis") @@ ("chapter" :> 1) @@ ("verses" :> "1")
               @@ ("translation" :> "ESV")),
     Candidate("bible:esv", Frac(95, 100), "1 In the beginning.",
               ("book" :> "Genesis") @@ ("chapter" :> 1) @@ ("verses" :> "1")
               @@ ("translation" :> "KJV")),
     Candidate("bible:esv", Frac(3, 10), "Invalid 1:2",
               ("book" :> "Invalid") @@ ("chapter" :> 1) @@ ("verses" :> "2")),
     Candidate("gutenberg:hamlet", Frac(7, 10), "To be, or not to be.",
               ("title" :> "Hamlet") @@ ("author" :> "")),
     Candidate("manual", Frac(3, 1), "", EmptyDict)}
RankSeqs == UNION {[1..k -> RankInputs] : k \in 0..MaxRanked}

MaxInputs == (-1)..(MaxCandidates + 1)

TitleInputs == Titles \cup {"Hamlet and Absalom", "Amleth", "The", "Macbeth"}
CitationDataInputs ==
    {("type" :> "literature") @@ ("work" :> "x"),
     ("type" :> "literature") @@ ("work" :> "x") @@ ("start_line" :> 2),
     ("type" :> "literature") @@ ("work" :> "x") @@ ("start_line" :> 1) @@ ("end_line" :> 2),
     ("type" :> "literature") @@ ("work" :> "x") @@ ("start_line" :> 7) @@ ("end_line" :> 8)}

BibleBookInputs == {"Genesis", "Romans", "1 Corinthians", "gen", "Invalid", ""}
ChapterInputs == {0, 1, 8, 13}
VerseInputs == (-1..(MaxNum + 2)) \cup {28}
TranslationInputs == {"ESV", "KJV", "Vulgate"}
CappedCitations ==
    {"", "Genesis 0:1", "Genesis 1:1-3; Romans 8:28", "Absalom and Achitophel 3-4",
     "Gen 1:1; Gen 1:2; Gen 1:3; Matt 5:3; Matt 5:4; Rom 8:28; 1 Cor 13:4"}

----------------------------------------------------------------------------
Idle ==
    /\ op = "idle"
    /\ citation = ""
    /\ args = <<>>
    /\ result = None
    /\ raised = "none"
    /\ bibleCalls = <<>>
    /\ literaryCalls = <<>>
    /\ confidenceWrites = <<>>

\* an engine after construction: the corpus directory is missing, or its
\* files are indexed
Init ==
    /\ Idle
    /\ literary_works \in {<<>>, indexLiteraryWorks(Corpus)}

\* a call of CitationParser.parseCitation; the core is synchronous and
\* single-threaded, so a call starts only when no call is outstanding
ParseCitation ==
    /\ op = "idle"
    /\ \E c \in Citations :
          /\ op' = "parseCitation"
          /\ citation' = c
          /\ args' = <<>>
          /\ result' = Some(parseCitation(c))
          /\ raised' = "none"
          /\ bibleCalls' = <<>>
          /\ literaryCalls' = <<>>
          /\ confidenceWrites' = <<>>
          /\ UNCHANGED literary_works

\* a call of CitationExtractionEngine.extractPassageFromCitation; bibleCalls
\* is the log of the calls of extractBiblicalPassage it made
ExtractPassageFromCitation ==
    /\ op = "idle"
    /\ \E c \in Citations :
          \E got \in {generatePassageCandidates(literary_works, c, MaxCandidates)} :
              \E up \in SUBSET Ties(got.candidates) :
                  \E call \in {PassageResult(c, got, up)} :
                      /\ op' = "extractPassageFromCitation"
                      /\ citation' = c
                      /\ args' = <<>>
                      /\ result' = call.result
                      /\ raised' = call.raised
                      /\ bibleCalls' = call.calls
                      /\ literaryCalls' = call.passages
                      /\ confidenceWrites' = call.writes
                      /\ UNCHANGED literary_works

IdentifySourceType ==
    /\ op = "idle"
    /\ \E c \in Citations :
          /\ op' = "identifySourceType"
          /\ args' = <<c>>
          /\ result' = Some(identifySourceType(c))
          /\ UNCHANGED <<citation, raised, bibleCalls, literaryCalls, confidenceWrites,
                       literary_works>>

\* extractPassageFromCitation(self, citation) called with a maximum as a
\* second argument: the method takes none, and Python raises TypeError
\* before the body runs
ExtractPassageFromCitationWithMaximum ==
    /\ op = "idle"
    /\ \E c \in CappedCitations, max_candidates \in MaxInputs :
          /\ op' = "extractPassageFromCitation"
          /\ citation' = c
          /\ args' = <<max_candidates>>
          /\ result' = None
          /\ raised' = "TypeError"
          /\ bibleCalls' = <<>>
          /\ literaryCalls' = <<>>
          /\ confidenceWrites' = <<>>
          /\ UNCHANGED literary_works

\* a call of generatePassageCandidates with a maximum the caller gives
GeneratePassageCandidates ==
    /\ op = "idle"
    /\ \E c \in CappedCitations, max_candidates \in MaxInputs :
          \E got \in {generatePassageCandidates(literary_works, c, max_candidates)} :
              /\ op' = "generatePassageCandidates"
              /\ citation' = c
              /\ args' = <<max_candidates>>
              /\ result' = IF got.raised = "none" THEN Some(got.candidates) ELSE None
              /\ raised' = got.raised
              /\ bibleCalls' = got.calls
              /\ literaryCalls' = got.passages
              /\ confidenceWrites' = got.writes
              /\ UNCHANGED literary_works

\* direct calls of the parser's and the engine's other public operations
NormalizeBookNames ==
    /\ op = "idle"
    /\ \E book_name \in BookNameInputs :
          /\ op' = "normalizeBookNames"
          /\ args' = <<book_name>>
          /\ result' = normalizeBookNames(book_name)
          /\ UNCHANGED <<citation, raised, bibleCalls, literaryCalls, confidenceWrites,
                       literary_works>>

\* extractLiteraryPassage as it would be if it dropped the index it read
ExtractLiteraryPassageDroppingIndex ==
    /\ op = "idle"
    /\ \E work_id \in WorkIdInputs, start_line, end_line \in LineInputs :
          /\ op' = "extractLiteraryPassage"
          /\ args' = <<work_id, start_line, end_line>>
          /\ result' = extractLiteraryPassage(literary_works, work_id, start_line, end_line)
          /\ literary_works' = <<>>
          /\ UNCHANGED <<citation, raised, bibleCalls, literaryCalls, confidenceWrites>>

ExtractLiteraryPassage ==
    /\ op = "idle"
    /\ \E work_id \in WorkIdInputs, start_line, end_line \in LineInputs :
          /\ op' = "extractLiteraryPassage"
          /\ args' = <<work_id, start_line, end_line>>
          /\ result' = extractLiteraryPassage(literary_works, work_id, start_line, end_line)
          /\ UNCHANGED <<citation, raised, bibleCalls, literaryCalls, confidenceWrites,
                       literary_works>>

CalculateConfidenceScore ==
    /\ op = "idle"
    /\ \E candidate \in CandidateInputs, original_citation \in OriginalCitationInputs :
          /\ op' = "calculateConfidenceScore"
          /\ args' = <<candidate, original_citation>>
          /\ result' = Some(calculateConfidenceScore(candidate, original_citation))
          /\ UNCHANGED <<citation, raised, bibleCalls, literaryCalls, confidenceWrites,
                       literary_works>>

\* a second call that leaves the list as the first call gave it out
RankCandidatesAgainUnchanged ==
    /\ op = "rankCandidates"
    /\ Len(confidenceWrites) < MaxRankCalls * Len(result[1])
    /\ op' = "rankCandidates"
    /\ args' = <<result[1]>>
    /\ result' = result
    /\ confidenceWrites' = confidenceWrites \o Writes(result[1], 0, "rankCandidates")
    /\ UNCHANGED <<citation, raised, bibleCalls, literaryCalls, literary_works>>

\* rankCandidates called on the list that it returned
RankCandidatesAgain ==
    /\ op = "rankCandidates"
    /\ Len(confidenceWrites) < MaxRankCalls * Len(result[1])
    /\ op' = "rankCandidates"
    /\ args' = <<result[1]>>
    /\ result' = Some(rankCandidates(result[1]))
    /\ confidenceWrites' =
          confidenceWrites \o Writes(rescore(result[1]), 0, "rankCandidates")
    /\ UNCHANGED <<citation, raised, bibleCalls, literaryCalls, literary_works>>

GetCitationMatchScore ==
    /\ op = "idle"
    /\ \E candidate \in CandidateInputs, original_citation \in OriginalCitationInputs :
          /\ op' = "getCitationMatchScore"
          /\ args' = <<candidate, original_citation>>
          /\ result' = Some(getCitationMatchScore(candidate, original_citation))
          /\ UNCHANGED <<citation, raised, bibleCalls, literaryCalls, confidenceWrites,
                       literary_works>>

ExtractBiblicalPassage ==
    /\ op = "idle"
    /\ \E book \in BibleBookInputs, chapter \in ChapterInputs,
          start_verse, end_verse \in VerseInputs, translation \in TranslationInputs :
          /\ op' = "extractBiblicalPassage"
          /\ args' = <<book, chapter, start_verse, end_verse, translation>>
          /\ result' = extractBiblicalPassage(book, chapter, start_verse, end_verse, translation)
          /\ UNCHANGED <<citation, raised, bibleCalls, literaryCalls, confidenceWrites,
                       literary_works>>

\* a call of _findLiteraryMatches for one literature reference
FindLiteraryMatches ==
    /\ op = "idle"
    /\ \E work_title \in TitleInputs, citation_data \in CitationDataInputs :
          \E literary \in {findLiteraryMatches(literary_works, work_title, citation_data)} :
              /\ op' = "findLiteraryMatches"
              /\ args' = <<work_title, citation_data>>
              /\ result' = Some(literary.candidates)
              /\ literaryCalls' = literary.calls
              /\ confidenceWrites' = Writes(literary.candidates, 0, "_findLiteraryMatches")
              /\ UNCHANGED <<citation, raised, bibleCalls, literary_works>>

RankCandidates ==
    /\ op = "idle"
    /\ \E candidates \in RankSeqs :
          /\ op' = "rankCandidates"
          /\ args' = <<candidates>>
          /\ result' = Some(rankCandidates(candidates))
          /\ confidenceWrites' = Writes(rescore(candidates), 0, "rankCandidates")
          /\ UNCHANGED <<citation, raised, bibleCalls, literaryCalls, literary_works>>

\* the caller takes the result (or the exception) of the finished call
Return ==
    /\ op # "idle"
    /\ op' = "idle"
    /\ citation' = ""
    /\ args' = <<>>
    /\ result' = None
    /\ raised' = "none"
    /\ bibleCalls' = <<>>
    /\ literaryCalls' = <<>>
    /\ confidenceWrites' = <<>>
    /\ UNCHANGED literary_works

\* the calls of an engine and of parseCitation of its parser;
\* identifySourceType is called on a parser of its own, under ParserSpec
Next ==
    \/ NormalizeBookNames
    \/ ExtractLiteraryPassage
    \/ ExtractBiblicalPassage
    \/ CalculateConfidenceScore
    \/ RankCandidates
    \/ GeneratePassageCandidates
    \/ ExtractPassageFromCitationWithMaximum
    \/ ExtractPassageFromCitation
    \/ ParseCitation
    \/ Return

Spec == Init /\ [][Next]_vars

\* a CitationParser on its own, without an engine and its index
ParserInit == Idle /\ literary_works = <<>>
ParserNext == ParseCitation \/ IdentifySourceType \/ Return
ParserSpec == ParserInit /\ [][ParserNext]_vars

\* the engine's operations called one by one
CallsInit ==
    /\ Idle
    /\ literary_works \in {<<>>, indexLiteraryWorks(Corpus), indexLiteraryWorks(Library)}
CallsNext ==
    \/ NormalizeBookNames
    \/ ExtractLiteraryPassage
    \/ ExtractBiblicalPassage
    \/ FindLiteraryMatches
    \/ GetCitationMatchScore
    \/ RankCandidatesAgain
    \/ CalculateConfidenceScore
    \/ RankCandidates
    \/ Return
CallsSpec == CallsInit /\ [][CallsNext]_vars
----------------------------------------------------------------------------
(* Properties                                                              *)

Parsed == op = "parseCitation"
Refs == result[1].citations
SourceType == result[1].source_type

BibleDict(book, chapter, sv, ev) ==
    ("type" :> "bible") @@ ("book" :> book) @@ ("chapter" :> chapter)
    @@ ("start_verse" :> sv) @@ ("end_verse" :> ev)

LitDict(work, sl, el) ==
    ("type" :> "literature") @@ ("work" :> work) @@ ("start_line" :> sl)
    @@ ("end_line" :> el)

DramaDict(work, act, scene, sl, el) ==
    LitDict(work, sl, el) @@ ("act" :> act) @@ ("scene" :> scene)

\* the canonical name each book token of the inputs stands for; "Invalid"
\* stands for none
ExpectedBook ==
    "Genesis" :> "Genesis" @@ "gen" :> "Genesis" @@ "1 Cor" :> "1 Corinthians"
    @@ "Song of Solomon" :> "Song of Solomon"

OptNumStrs == NumStrs \cup {""}
RangeOf(n, m) == IF m = "" THEN n ELSE n \o "-" \o m
EndOf(n, m) == IF m = "" THEN ToInt(n) ELSE ToInt(m)

EndsInNumeralWord(t) ==
    \E i \in 2..Len(t) :
        /\ Ch(t, i - 1) \in Whitespace
        /\ \A h \in i..Len(t) : Ch(t, h) \in {"I", "V", "X", "i", "v", "x"}

RECURSIVE ChainedRefs(_, _)
ChainedRefs(segs, n) ==
    IF n > Len(segs) THEN <<>>
    ELSE LET alone == parseBiblicalCitation(segs[n])
         IN  [i \in 1..Len(alone) |-> CitationDict(alone[i])] \o ChainedRefs(segs, n + 1)

\* C4: for a bible-classified list of segments joined by semicolons the
\* references are the concatenation, in segment order, of what each segment
\* yields when parsed alone as a single biblical reference.
C4_ChainedIsConcatenation ==
    /\ \A segs \in SegSeqs :
           (Parsed /\ citation = Join(segs, "; ") /\ SourceType = "bible")
           => Refs = ChainedRefs(segs, 1)
    /\ (Parsed /\ citation = "Romans 8:28; 1 Cor 13:4-7")
       => /\ SourceType = "bible"
          /\ Refs = <<BibleDict("Romans", 8, 28, 28), BibleDict("1 Corinthians", 13, 4, 7)>>

C4_Witness ==
    /\ Parsed
    /\ citation = "Romans 8:28; Invalid 1:2; 1 Cor 13:4-7"
    /\ Refs = <<BibleDict("Romans", 8, 28, 28), BibleDict("1 Corinthians", 13, 4, 7)>>

C6_MixedIsBothSides ==
    /\ \A a, b \in RefTokens :
           (/\ Parsed
            /\ citation = MixedCitation(a, b)
            /\ Len(parseCitation(a).citations) = 1
            /\ Len(parseCitation(b).citations) = 1)
           => /\ SourceType = "mixed"
              /\ Refs = <<parseCitation(a).citations[1], parseCitation(b).citations[1]>>
    /\ (Parsed /\ citation = "cf. Genesis 3:15; Paradise Lost IX.1033-1045")
       => Refs = <<BibleDict("Genesis", 3, 15, 15),
                   LitDict("Paradise Lost", 1033, 1045) @@ ("book_number" :> "IX")>>

C6_Witness ==
    /\ Parsed
    /\ citation = "cf. Hamlet Act 3 Scene 1, 56-88; 1 Cor 13:4-7"
    /\ Refs = <<DramaDict("Hamlet", "3", "1", 56, 88), BibleDict("1 Corinthians", 13, 4, 7)>>

\* no pattern of the grammar matches the text, nor any of its segments
StructuralPatterns ==
    {bible_standard, literature_drama, literature_book, literature_simple, mixed_reference}
NoPatternMatches(text) ==
    \A p \in StructuralPatterns :
        /\ ReMatchAt(p, Strip(text), 1) = None
        /\ \A n \in DOMAIN Split(Strip(text), ";") :
               ReMatchAt(p, Strip(Split(Strip(text), ";")[n]), 1) = None
HasNoDigit(text) == \A i \in 1..Len(text) : Ch(text, i) \notin Digit
BibleFound(text) ==
    \E i \in 1..Len(text) :
        /\ ReMatchAt(bible_standard, text, i) # None
        /\ \A h \in 1..(i - 1) : ReMatchAt(bible_standard, text, h) = None
        /\ normalizeBookNames(ReMatchAt(bible_standard, text, i)[1].group[1][1]) # None

\* C7: when no structural pattern matches, parseCitation raises nothing and
\* returns no citations; without "cf." and ";", without a normalizing
\* biblical match and without ";" and ":", the source type is literature.
C7_UnparseableIsEmpty ==
    Parsed =>
        /\ (HasNoDigit(citation) \/ NoPatternMatches(citation))
           => (Refs = <<>> /\ raised = "none")
        /\ (/\ ~(Contains(StrLower(citation), "cf.") /\ Contains(citation, ";"))
            /\ ~BibleFound(Strip(citation))
            /\ ~(Contains(citation, ";") /\ Contains(citation, ":")))
           => SourceType = "literature"
        /\ citation \in {"Not a citation at all", "", "Genesis", "Paradise Lost"}
           => (Refs = <<>> /\ SourceType = "literature")

C7_Witness ==
    /\ Parsed
    /\ citation = "Hamlet 5-6 and following"
    /\ NoPatternMatches(citation)
    /\ Refs = <<>>
    /\ SourceType = "literature"

\* C8 as stated: every reference returned by parseCitation has
\* end_verse >= start_verse (Bible) and end_line >= start_line (Literature).
C8_EndNotBeforeStart ==
    Parsed =>
        \A i \in DOMAIN Refs :
            /\ {"start_verse", "end_verse"} \subseteq DOMAIN Refs[i]
               => Refs[i]["end_verse"] >= Refs[i]["start_verse"]
            /\ {"start_line", "end_line"} \subseteq DOMAIN Refs[i]
               => Refs[i]["end_line"] >= Refs[i]["start_line"]

\* C9 as stated: every Bible reference carries chapter, start_verse and
\* end_verse >= 1, every Literature reference start_line and end_line >= 1.
C9_PositiveFieldsPresent ==
    Parsed =>
        \A i \in DOMAIN Refs :
            /\ Refs[i]["type"] = "bible"
               => /\ {"chapter", "start_verse", "end_verse"} \subseteq DOMAIN Refs[i]
                  /\ Refs[i]["chapter"] >= 1
                  /\ Refs[i]["start_verse"] >= 1
                  /\ Refs[i]["end_verse"] >= 1
            /\ Refs[i]["type"] = "literature"
               => /\ {"start_line", "end_line"} \subseteq DOMAIN Refs[i]
                  /\ Refs[i]["start_line"] >= 1
                  /\ Refs[i]["end_line"] >= 1

Extracted == op = "extractPassageFromCitation" /\ args = <<>>

\* C1 as stated: extractPassageFromCitation returns a result with a
\* candidates list for every citation string and never raises an exception.
C1_NeverRaises == Extracted => (raised = "none" /\ result # None)

\* the segments of the chained inputs whose book token is in the table
KnownSegs(segs) == {n \in DOMAIN segs : segs[n] \notin {"Invalid 1:2", "Hamlet 5-6"}}

\* C10: every Bible reference parseCitation returns has a book that is a
\* canonical name of the table; a segment whose book token does not
\* normalize yields no reference and no call of extractBiblicalPassage.
C10_OnlyCanonicalBooks ==
    /\ Parsed =>
          \A i \in DOMAIN Refs :
              Refs[i]["type"] = "bible"
              => ("book" \in DOMAIN Refs[i] /\ Refs[i]["book"] \in CanonicalBooks)
    /\ Extracted => \A n \in DOMAIN bibleCalls : bibleCalls[n][1] \in CanonicalBooks
    /\ \A c \in NumStrs, r \in RangeStrs :
          citation = BibleCitation("Invalid", c, r)
          => /\ Parsed => Refs = <<>>
             /\ Extracted => (bibleCalls = <<>> /\ raised = "none" /\ result[1].candidates = <<>>)
    /\ \A segs \in SegSeqs :
          citation = Join(segs, "; ")
          => /\ Parsed => Len(Refs) = Cardinality(KnownSegs(segs))
             /\ Extracted => Len(bibleCalls) <= Cardinality(KnownSegs(segs))

C10_Witness ==
    /\ Extracted
    /\ citation = "Romans 8:28; Invalid 1:2; 1 Cor 13:4-7"
    /\ bibleCalls = <<<<"Romans", 8, 28, 28>>, <<"1 Corinthians", 13, 4, 7>>>>
    /\ raised = "none"

----------------------------------------------------------------------------
(* The engine's operations called one by one                               *)

Normalized == op = "normalizeBookNames"
ExtractedLiterary == op = "extractLiteraryPassage"
Scored == op = "calculateConfidenceScore"
Ranked == op = "rankCandidates"
Generated == op = "generatePassageCandidates"

\* C11: normalizeBookNames is idempotent: every canonical name of the table
\* normalizes to itself, and so a name with a non-null result normalizes to a
\* name whose own normalization is that same name.
C11_NormalizeIdempotent ==
    Normalized =>
        /\ args[1] \in CanonicalBooks => result = Some(args[1])
        /\ result # None =>
              /\ result[1] \in CanonicalBooks
              /\ normalizeBookNames(result[1]) = result

\* a raw name that is not canonical itself and has a canonical result
C11_Witness ==
    /\ Normalized
    /\ args[1] = "1  cor"
    /\ result = Some("1 Corinthians")

\* C12: a candidate that extractLiteraryPassage(workId, a, b) returns has the
\* metadata lines "a-b", start_position a, end_position b and the source
\* 'gutenberg:<workId>'.
C12_CandidateEchoesRange ==
    (ExtractedLiterary /\ result # None) =>
        /\ result[1].metadata["lines"] = IntToStr(args[2]) \o "-" \o IntToStr(args[3])
        /\ result[1].start_position = Some(args[2])
        /\ result[1].end_position = Some(args[3])
        /\ result[1].source = "gutenberg:" \o args[1]

C12_Witness ==
    /\ ExtractedLiterary
    /\ args = <<"absalom_and_achitophel", 7, 8>>
    /\ result # None
    /\ result[1].metadata["lines"] = "7-8"

\* C13: calculateConfidenceScore is in [0,1] for every candidate and original
\* citation, a prior confidence below 0 or above 1 included; and every
\* confidence in the output of extractPassageFromCitation is in [0,1] (it is
\* kept in thousandths there).
C13_ConfidenceInUnitInterval ==
    /\ Scored =>
          /\ result[1].d > 0
          /\ 0 <= result[1].n
          /\ result[1].n <= result[1].d
    /\ (Extracted /\ result # None) =>
          \A i \in 1..Len(result[1].candidates) :
              result[1].candidates[i].confidence \in 0..1000

\* a prior confidence of 3 with an empty text: the sum is above 1 and the
\* score is 1
C13_Witness ==
    /\ Scored
    /\ args[1].confidence = Frac(3, 1)
    /\ args[1].text = ""
    /\ result = Some(One)

\* the input positions in an order p, as the ranking of candidates gave out
IsRankingOf(out, candidates, p) ==
    /\ \A k \in 1..Len(out) :
          /\ out[k].confidence = calculateConfidenceScore(candidates[p[k]], "")
          /\ out[k] = [candidates[p[k]] EXCEPT !.confidence = out[k].confidence]
    /\ \A i, j \in 1..Len(out) :
          (i < j /\ out[i].confidence = out[j].confidence) => p[i] < p[j]

\* C14: rankCandidates gives the candidates out in non-increasing order of
\* the recomputed confidence, candidates of equal recomputed confidence in
\* their input order, and what it gives out is a permutation of its input.
C14_RankedStableDescending ==
    Ranked =>
        LET candidates == args[1]
            out == result[1]
        IN  /\ Len(out) = Len(candidates)
            /\ \A i, j \in 1..Len(out) :
                  i < j => ~FLess(out[i].confidence, out[j].confidence)
            /\ \E p \in Permutations(1..Len(out)) : IsRankingOf(out, candidates, p)

\* three candidates, the first the lowest, the other two tied and different
C14_Witness ==
    /\ Ranked
    /\ Len(args[1]) = 3
    /\ args[1][1].source = "gutenberg:hamlet"
    /\ args[1][2].metadata = ("translation" :> "ESV") @@ args[1][3].metadata
    /\ args[1][2] # args[1][3]
    /\ result[1][1].metadata["translation"] = "ESV"
    /\ result[1][2].metadata["translation"] = "KJV"
    /\ result[1][1].confidence = result[1][2].confidence
    /\ FLess(result[1][3].confidence, result[1][2].confidence)
    /\ result[1][3].source = "gutenberg:hamlet"

----------------------------------------------------------------------------
(* The passages of literary citations and the candidates handed back       *)

BestOf(res) == res[1].best_match
Similar(title, w) ==
    FLess(Frac(3, 10), Ratio(normalizeTitle(title), literary_works[w].normalized_title))

\* the works a title resolves to that have at least m lines
ResolvedWorks(title, m) ==
    {w \in 1..Len(literary_works) :
        /\ literary_works[w].readable
        /\ Len(literary_works[w].lines) >= m
        /\ Similar(title, w)}

\* the content of the lines n..m of a work: the lines without their
\* numbering, the empty ones left out
ContentOfLines(w, n, m) ==
    cleanPassageText(SubSeq(literary_works[w].lines, IF n < 1 THEN 1 ELSE n, m))

\* extractPassageFromCitation('<title> n-m') gave the lines n..m of a work
\* the title resolves to
YieldsLines(title, n, m) ==
    (/\ citation = SimpleCitation(title, "", IntToStr(n) \o "-" \o IntToStr(m), "")
     /\ ResolvedWorks(title, m) # {})
    => /\ raised = "none"
       /\ result # None
       /\ BestOf(result) # None
       /\ \E w \in ResolvedWorks(title, m) :
             /\ BestOf(result)[1].source = "gutenberg:" \o literary_works[w].work_id
             /\ BestOf(result)[1].text = ContentOfLines(w, n, m)

AbsalomLines7To8 ==
    (citation = "Absalom and Achitophel 7-8" /\ literary_works # <<>>)
    => /\ result # None
       /\ BestOf(result) # None
       /\ BestOf(result)[1].text
              = "When man on many multiplied his kind,\nEre one to one was cursedly confined;"
       /\ BestOf(result)[1].metadata["lines"] = "7-8"

CitedLines == (1..MaxNum) \cup {3, 4, 7, 8}

C16_BestMatchIsFirst ==
    (Extracted /\ result # None) =>
        /\ BestOf(result) = None <=> result[1].candidates = <<>>
        /\ result[1].candidates # <<>> =>
              /\ BestOf(result) = Some(result[1].candidates[1])
              /\ \A i \in 1..Len(result[1].candidates) :
                    result[1].candidates[i].confidence <= BestOf(result)[1].confidence

\* two candidates of different confidence
C16_Witness ==
    /\ Extracted
    /\ result # None
    /\ Len(result[1].candidates) >= 2
    /\ BestOf(result) = Some(result[1].candidates[1])
    /\ result[1].candidates[2].confidence < BestOf(result)[1].confidence

\* the whole ranked list of the candidates of a citation
RankedList(c) ==
    rankCandidates(CandidatesLoop(literary_works, parseCitation(c).citations, 1,
                                  NoCandidates).candidates)

\* the dictionary d is the candidate, its confidence rounded
IsDictOf(d, candidate) ==
    /\ d.source = candidate.source
    /\ d.text = candidate.text
    /\ d.metadata = candidate.metadata
    /\ d.confidence \in {Round3(candidate.confidence, TRUE), Round3(candidate.confidence, FALSE)}

Smaller(a, b) == IF a < b THEN a ELSE b

----------------------------------------------------------------------------
(* The classification and the order of the literary patterns                *)

Identified == op = "identifySourceType"

\* C18: identifySourceType gives 'mixed' for a string with 'cf.' (in any
\* letter case) and ';'; otherwise 'bible' when the biblical pattern is found
\* and the book token it captured normalizes; otherwise 'bible' for a string
\* with ';' and ':'; otherwise 'literature'; it gives no other value and
\* raises nothing.
C18_ClassificationPriority ==
    Identified =>
        /\ raised = "none"
        /\ result # None
        /\ result[1] \in {"mixed", "bible", "literature"}
        /\ result[1] =
              IF Contains(StrLower(args[1]), "cf.") /\ Contains(args[1], ";") THEN "mixed"
              ELSE IF BibleFound(args[1]) THEN "bible"
              ELSE IF Contains(args[1], ";") /\ Contains(args[1], ":") THEN "bible"
              ELSE "literature"

\* the biblical pattern is found, the book does not normalize, and ';' and
\* ':' make the string bible
C18_Witness ==
    /\ Identified
    /\ args[1] = "Invalid 1:2; Foo"
    /\ ~BibleFound(args[1])
    /\ result = Some("bible")

\* the numeral of a book/canto citation as it is written
NumeralToken(nm) ==
    CASE nm = "Book I, " -> "I"
      [] nm = "IX." -> "IX"
      [] nm = "Book 2, " -> "2"
      [] nm = "2." -> "2"

\* C19: for a string classified literature the result holds at most one
\* reference, built by the first of the patterns drama, book/canto, simple
\* that matches, a later one matching too or not; the reference of the
\* book/canto pattern holds the numeral as it is written.
C19_FirstLiteraryPatternWins ==
    (Parsed /\ SourceType = "literature") =>
        /\ Len(Refs) <= 1
        /\ \A i \in DOMAIN Refs : Refs[i]["type"] = "literature"
        /\ IF ReMatch(literature_drama, Strip(citation)) # None
           THEN /\ Len(Refs) = 1
                /\ {"act", "scene"} \subseteq DOMAIN Refs[1]
                /\ "book_number" \notin DOMAIN Refs[1]
           ELSE IF ReMatch(literature_book, Strip(citation)) # None
           THEN /\ Len(Refs) = 1
                /\ "book_number" \in DOMAIN Refs[1]
                /\ DOMAIN Refs[1] \cap {"act", "scene"} = {}
           ELSE IF ReMatch(literature_simple, Strip(citation)) # None
           THEN /\ Len(Refs) = 1
                /\ DOMAIN Refs[1] \cap {"act", "scene", "book_number"} = {}
           ELSE Refs = <<>>
        /\ \A nm \in Numerals, r \in RangeStrs :
              citation = BookCitation("Paradise Lost", nm, r)
              => (Len(Refs) = 1 /\ Refs[1]["book_number"] = NumeralToken(nm))
        /\ citation = "Henry V. 1-2"
           => (Refs[1]["work"] = "Henry" /\ Refs[1]["book_number"] = "V")

\* a string the book/canto and the simple pattern both match
C19_Witness ==
    /\ Parsed
    /\ SourceType = "literature"
    /\ citation = "Henry V. 1-2"
    /\ ReMatch(literature_book, citation) # None
    /\ ReMatch(literature_simple, citation) # None
    /\ Len(Refs) = 1
    /\ Refs[1]["book_number"] = "V"

\* the file of a work of the corpus
FileOf(work_id) == Library[CHOOSE i \in 1..Len(Library) : Library[i].stem = work_id]

\* extractLiteraryPassage has to give null for the work and the lines
NoPassage(work_id, s, e) ==
    \/ work_id \notin {literary_works[w].work_id : w \in 1..Len(literary_works)}
    \/ s <= 0
    \/ ~FileOf(work_id).readable
    \/ e > Len(FileOf(work_id).lines)

\* C20: extractLiteraryPassage(workId, s, e) gives null exactly when workId
\* is not in the index, s <= 0, e is above the number of lines of the work or
\* the file cannot be read; and extractPassageFromCitation of '<Title> n-m'
\* raises nothing and holds no candidate of a work that has fewer than m
\* lines.
C20_NullExactlyWhenOutOfRange ==
    /\ ExtractedLiterary => (result = None <=> NoPassage(args[1], args[2], args[3]))
    /\ Extracted =>
          \A title \in Titles, n, m \in CitedLines \cup {10, 11} :
              citation = SimpleCitation(title, "", IntToStr(n) \o "-" \o IntToStr(m), "")
              => /\ raised = "none"
                 /\ result # None
                 /\ \A i \in 1..Len(result[1].candidates), w \in 1..Len(literary_works) :
                       result[1].candidates[i].source
                           = "gutenberg:" \o literary_works[w].work_id
                       => m <= Len(literary_works[w].lines)

\* the last line of the work is line 10
C20_Witness ==
    /\ ExtractedLiterary
    /\ literary_works # <<>>
    /\ args = <<"absalom_and_achitophel", 10, 11>>
    /\ result = None

----------------------------------------------------------------------------
(* The text of a literary passage                                          *)

\* the place of the first character of line at or after i that is not in S
SkipWhile(line, i, S) ==
    CHOOSE j \in i..(Len(line) + 1) :
        /\ \A h \in i..(j - 1) : Ch(line, h) \in S
        /\ j = Len(line) + 1 \/ Ch(line, j) \notin S

\* line without its leading line-number token: whitespace, digits,
\* whitespace, at most one "." or ":", whitespace
WithoutNumbering(line) ==
    LET number == SkipWhile(line, 1, Whitespace)
        mark == SkipWhile(line, SkipWhile(line, number, Digit), Whitespace)
        rest == IF mark <= Len(line) /\ Ch(line, mark) \in {".", ":"} THEN mark + 1 ELSE mark
    IN  IF SkipWhile(line, number, Digit) = number THEN line
        ELSE SubSeq(line, SkipWhile(line, rest, Whitespace), Len(line))

\* line without that token and without the whitespace at its ends
ContentOf(line) ==
    LET rest == WithoutNumbering(line)
        first == SkipWhile(rest, 1, Whitespace)
        last == IF first > Len(rest) THEN 0
                ELSE CHOOSE j \in first..Len(rest) :
                         /\ Ch(rest, j) \notin Whitespace
                         /\ \A h \in (j + 1)..Len(rest) : Ch(rest, h) \in Whitespace
    IN  SubSeq(rest, first, last)

IsBlank(line) == \A i \in 1..Len(line) : Ch(line, i) \in Whitespace

\* line holds a line number and nothing else
IsNumberOnly(line) ==
    \E i, j \in 1..Len(line) :
        /\ i <= j
        /\ \A h \in 1..(i - 1) : Ch(line, h) \in Whitespace
        /\ \A h \in i..j : Ch(line, h) \in Digit
        /\ \E k \in j..(Len(line) + 1) :
              /\ \A h \in (j + 1)..(k - 1) : Ch(line, h) \in Whitespace
              /\ \A h \in k..Len(line) :
                    Ch(line, h) \in (IF h = k THEN Whitespace \cup {".", ":"} ELSE Whitespace)

NonEmpty(content) == content # ""

\* the lines of a text that newlines join
TextLines(text) == IF text = "" THEN <<>> ELSE Split(text, "\n")

\* C21: when extractLiteraryPassage(workId, s, e) succeeds with
\* 1 <= s <= e <= lineCount, the lines of its text are, in source order, the
\* lines s..e of the work without their leading line-number token, the lines
\* left empty dropped: at most e-s+1 lines, and exactly e-s+1 when no line
\* of the range is blank or number-only.
C21_TextIsCleanedRange ==
    ExtractedLiterary /\ result # None /\ 1 <= args[2] /\ args[2] <= args[3]
    => LET lines == FileOf(args[1]).lines
           range == [k \in 1..(args[3] - args[2] + 1) |-> lines[args[2] + k - 1]]
           contents == [k \in DOMAIN range |-> ContentOf(range[k])]
       IN  /\ args[3] <= Len(lines)
           /\ TextLines(result[1].text) = SelectSeq(contents, NonEmpty)
           /\ result[1].text = ""
              \/ result[1].text = Join(SelectSeq(contents, NonEmpty), "\n")
           /\ Len(TextLines(result[1].text)) <= args[3] - args[2] + 1
           /\ (\A k \in DOMAIN range : ~IsBlank(range[k]) /\ ~IsNumberOnly(range[k]))
              => Len(TextLines(result[1].text)) = args[3] - args[2] + 1

\* lines 3..7 hold a blank line, a number-only line and two numbered lines
C21_Witness ==
    /\ ExtractedLiterary
    /\ args = <<"absalom_and_achitophel", 3, 7>>
    /\ result # None
    /\ result[1].text
         = "Before polygamy was made a sin;\nby John Dryden\nWhen man on many multiplied his kind,"

----------------------------------------------------------------------------
(* The text of a biblical passage                                          *)

ExtractedBiblical == op = "extractBiblicalPassage"

InSampleTable(book, chapter) ==
    \E k \in 1..Len(sample_passages) :
        sample_passages[k].book = book /\ sample_passages[k].chapter = chapter

\* the entry of a verse: its number, then its canned text or the placeholder
VerseEntry(book, chapter, verse) ==
    LET canned == {sample_passages[k].verses[verse] :
                      k \in {h \in 1..Len(sample_passages) :
                                /\ sample_passages[h].book = book
                                /\ sample_passages[h].chapter = chapter
                                /\ verse \in DOMAIN sample_passages[h].verses}}
    IN  IntToStr(verse) \o " "
        \o (IF canned = {} THEN "[Verse text not available in demo]"
            ELSE CHOOSE text \in canned : TRUE)

\* the entries of the verses first..last in ascending order
RECURSIVE VerseEntries(_, _, _, _)
VerseEntries(book, chapter, first, last) ==
    IF first = last THEN VerseEntry(book, chapter, first)
    ELSE VerseEntry(book, chapter, first) \o " "
         \o VerseEntries(book, chapter, first + 1, last)

\* C22: extractBiblicalPassage gives a candidate for every reference with
\* start_verse <= end_verse: for a (book, chapter) of the sample table its
\* text is the end-start+1 entries of the verses in ascending order, each
\* the verse number and the canned text or '[Verse text not available in
\* demo]'; for any other (book, chapter) it is '<book> <chapter>:<start>',
\* with '-<end>' appended when start # end.
C22_BiblicalTextByTable ==
    ExtractedBiblical /\ args[3] <= args[4]
    => /\ result # None
       /\ result[1].text =
             IF InSampleTable(args[1], args[2])
             THEN VerseEntries(args[1], args[2], args[3], args[4])
             ELSE args[1] \o " " \o IntToStr(args[2]) \o ":" \o IntToStr(args[3])
                  \o (IF args[3] # args[4] THEN "-" \o IntToStr(args[4]) ELSE "")

\* a canned verse, then a verse the table does not hold
C22_Witness ==
    /\ ExtractedBiblical
    /\ args = <<"Genesis", 1, 3, 4, "KJV">>
    /\ result # None
    /\ result[1].text
         = "3 And God said, \"Let there be light,\" and there was light. 4 [Verse text not available in demo]"

----------------------------------------------------------------------------
(* The works a literature reference is looked up in                        *)

FoundLiterary == op = "findLiteraryMatches"

\* the similarity of a title and the title of the work with the id
SimilarityOf(title, work_id) ==
    LET w == CHOOSE w \in 1..Len(literary_works) : literary_works[w].work_id = work_id
    IN  Ratio(normalizeTitle(title), literary_works[w].normalized_title)

TakenWorks == {literaryCalls[n][1] : n \in 1..Len(literaryCalls)}

\* C23: for one literature reference _findLiteraryMatches calls
\* extractLiteraryPassage for at most 3 works, each once; each has a title
\* similarity above 0.3 with the title of the reference, the works are
\* visited in non-increasing similarity, and no work left out is more
\* similar than a work taken; so the reference yields at most 3 candidates.
C23_AtMostThreeMostSimilar ==
    FoundLiterary
    => /\ Len(literaryCalls) <= 3
       /\ Cardinality(TakenWorks) = Len(literaryCalls)
       /\ TakenWorks \subseteq WorkIds(literary_works)
       /\ \A n \in 1..Len(literaryCalls) :
             FLess(Frac(3, 10), SimilarityOf(args[1], literaryCalls[n][1]))
       /\ \A n, h \in 1..Len(literaryCalls) :
             n < h => ~FLess(SimilarityOf(args[1], literaryCalls[n][1]),
                             SimilarityOf(args[1], literaryCalls[h][1]))
       /\ \A out \in WorkIds(literary_works) \ TakenWorks, taken \in TakenWorks :
             ~FLess(SimilarityOf(args[1], taken), SimilarityOf(args[1], out))
       /\ result # None
       /\ Len(result[1]) <= Len(literaryCalls)

\* five works of the library are similar enough; the three most similar
\* are taken, the most similar first
C23_Witness ==
    /\ FoundLiterary
    /\ args[1] = "Hamlet and Absalom"
    /\ Cardinality({w \in WorkIds(literary_works) :
                       FLess(Frac(3, 10), SimilarityOf(args[1], w))}) = 5
    /\ literaryCalls = <<<<"hamlet_q1", 1, 2>>, <<"hamlet", 1, 2>>, <<"amleth", 1, 2>>>>
    /\ Len(result[1]) = 2

----------------------------------------------------------------------------
(* The confidence score                                                    *)

\* the four indicators of the quality of a text and their average
LengthAdequacy(text) ==
    IF Len(text) >= 200 THEN One ELSE Frac(Len(text), 200)
Completeness(text) ==
    IF Len(text) >= 3 /\ SubSeq(text, Len(text) - 2, Len(text)) = "..."
    THEN Frac(8, 10) ELSE One
Readability(text) ==
    IF \E i \in 1..Len(text) : SubSeq(text, i, i) \in {".", "!", "?"}
    THEN One ELSE Frac(6, 10)
Cleanliness(text) ==
    IF \E i, j \in 1..Len(text) :
          /\ i < j
          /\ SubSeq(text, i, i) = "["
          /\ SubSeq(text, j, j) = "]"
          /\ \A h \in i..j : SubSeq(text, h, h) # "\n"
    THEN Frac(7, 10) ELSE One
IndicatorAverage(text) ==
    FMul(FAdd(FAdd(LengthAdequacy(text), Completeness(text)),
              FAdd(Readability(text), Cleanliness(text))),
         Frac(1, 4))

\* 0.95 / 0.85 / 0.70 by the tag the source begins with
ReliabilityOf(source) ==
    IF Len(source) >= 6 /\ SubSeq(source, 1, 6) = "bible:" THEN Frac(95, 100)
    ELSE IF Len(source) >= 10 /\ SubSeq(source, 1, 10) = "gutenberg:" THEN Frac(85, 100)
    ELSE Frac(70, 100)

\* the fraction of the required fields that the metadata holds with a
\* value that is not empty
CompletenessOf(metadata) ==
    LET Held(fields) ==
            {field \in fields \cap DOMAIN metadata :
                metadata[field] # (IF field = "chapter" THEN 0 ELSE "")}
    IN  IF "book" \in DOMAIN metadata
        THEN Frac(Cardinality(Held({"book", "chapter", "verses"})), 3)
        ELSE Frac(Cardinality(Held({"title", "author"})), 2)

\* clamp01((prior + 0.30*quality + 0.20*reliability + 0.20*completeness
\* + 0.30*match) / 2)
MidpointScore(candidate, original_citation, quality) ==
    LET weighted ==
            FAdd(FAdd(FMul(Frac(30, 100), quality),
                      FMul(Frac(20, 100), ReliabilityOf(candidate.source))),
                 FAdd(FMul(Frac(20, 100), CompletenessOf(candidate.metadata)),
                      FMul(Frac(30, 100),
                           getCitationMatchScore(candidate, original_citation))))
        midpoint == FMul(FAdd(candidate.confidence, weighted), Frac(1, 2))
    IN  IF FLess(midpoint, Zero) THEN Zero
        ELSE IF FLess(One, midpoint) THEN One
        ELSE midpoint

\* C24 as stated: the score is the clamped midpoint of the prior confidence
\* and the weighted sum, the quality of a text being the average of the four
\* indicators for every text, the empty text included.
C24_AverageForEveryText ==
    Scored => result[1] = MidpointScore(args[1], args[2], IndicatorAverage(args[1].text))

\* C24: the score is the clamped midpoint of the prior confidence and the
\* weighted sum 0.30*quality + 0.20*reliability + 0.20*completeness
\* + 0.30*match; the quality of a text is the average of the four
\* indicators, and 0 for the empty text.
C24_AverageUnlessEmpty ==
    Scored
    => result[1] = MidpointScore(args[1], args[2],
                                 IF args[1].text = "" THEN Zero
                                 ELSE IndicatorAverage(args[1].text))

\* a text with an ellipsis and a bracketed marker: quality
\* (25/200 + 0.8 + 1 + 0.7) / 4, title and empty author found in the citation
C24_Witness ==
    /\ Scored
    /\ args[1].text = "He said [...] and left..."
    /\ args[1].source = "gutenberg:hamlet"
    /\ args[1].confidence = Frac(95, 100)
    /\ args[1].metadata = ("title" :> "Hamlet") @@ ("author" :> "")
    /\ args[2] = "Hamlet 1-2"
    /\ result[1] = Frac(8584375, 10000000)

----------------------------------------------------------------------------
(* The assignments to a candidate's confidence                             *)

\* the candidates the log of the assignments names, those that
\* _findLiteraryMatches wrote to, and the assignments to one of them
WrittenCandidates == {confidenceWrites[i].candidate : i \in 1..Len(confidenceWrites)}
WritesTo(k, by) ==
    {i \in 1..Len(confidenceWrites) :
        confidenceWrites[i].candidate = k /\ confidenceWrites[i].by = by}

\* the candidates as extractBiblicalPassage and extractLiteraryPassage
\* constructed them during the call
ConstructedCandidates ==
    {extractBiblicalPassage(bibleCalls[n][1], bibleCalls[n][2], bibleCalls[n][3],
                            bibleCalls[n][4], "ESV")[1] : n \in 1..Len(bibleCalls)}
    \cup {extractLiteraryPassage(literary_works, literaryCalls[n][1], literaryCalls[n][2],
                                 literaryCalls[n][3])[1] :
             n \in {h \in 1..Len(literaryCalls) :
                       extractLiteraryPassage(literary_works, literaryCalls[h][1],
                                              literaryCalls[h][2], literaryCalls[h][3])
                       # None}}

\* the titles of the literature references of the citation
CitedTitles ==
    LET refs == parseCitation(citation).citations
    IN  {refs[n]["work"] : n \in {h \in 1..Len(refs) : "work" \in DOMAIN refs[h]}}

\* the dictionary d reports the constructed candidate made, whose confidence
\* was assigned as the log says for the candidate k
ReportsAs(d, made, k) ==
    LET earlier == WritesTo(k, "_findLiteraryMatches")
        prior == IF earlier = {} THEN made.confidence
                 ELSE confidenceWrites[CHOOSE i \in earlier : TRUE].confidence
        ranked == confidenceWrites[CHOOSE i \in WritesTo(k, "rankCandidates") : TRUE].confidence
    IN  /\ d.source = made.source
        /\ d.text = made.text
        /\ d.metadata = made.metadata
        /\ earlier # {} <=> made.start_position # None
        /\ earlier # {}
           => \E title \in CitedTitles :
                 prior = FMul(made.confidence,
                              SimilarityOf(title, SubSeq(made.source, 11, Len(made.source))))
        /\ ranked = calculateConfidenceScore([made EXCEPT !.confidence = prior], "")
        /\ d.confidence \in {Round3(ranked, TRUE), Round3(ranked, FALSE)}

\* C25 as stated: during one extractPassageFromCitation call the confidence
\* of each candidate is assigned exactly once after construction, by
\* rankCandidates.
C25_OverwrittenOnce ==
    (Extracted /\ raised = "none")
    => \A k \in WrittenCandidates :
          /\ Cardinality(WritesTo(k, "rankCandidates")) = 1
          /\ WritesTo(k, "_findLiteraryMatches") = {}

\* C25 (amended): rankCandidates assigns the confidence of each candidate
\* exactly once, after every other assignment, with
\* calculateConfidenceScore(candidate, '') of the candidate's confidence at
\* that time; before it _findLiteraryMatches has assigned the confidence of
\* each literary candidate once (its constructed confidence times the title
\* similarity) and that of no biblical candidate; the confidence reported is
\* rankCandidates' value rounded to 3 decimals and source, text and
\* metadata are as constructed.
C25_RankOverwritesOnce ==
    (Extracted /\ raised = "none")
    => /\ \A k \in WrittenCandidates :
             /\ Cardinality(WritesTo(k, "rankCandidates")) = 1
             /\ Cardinality(WritesTo(k, "_findLiteraryMatches")) <= 1
             /\ \A i \in WritesTo(k, "_findLiteraryMatches"), j \in 1..Len(confidenceWrites) :
                   confidenceWrites[j].by = "rankCandidates" => i < j
       /\ \A n \in 1..Len(result[1].candidates) :
             \E made \in ConstructedCandidates, k \in WrittenCandidates :
                 ReportsAs(result[1].candidates[n], made, k)

\* a biblical candidate and two literary ones: two assignments by
\* _findLiteraryMatches, then three by rankCandidates
C25_Witness ==
    /\ Extracted
    /\ citation = "cf. Genesis 1:1; Hamlet 1-2"
    /\ raised = "none"
    /\ Len(result[1].candidates) = 3
    /\ [i \in 1..Len(confidenceWrites) |->
          <<confidenceWrites[i].candidate, confidenceWrites[i].by>>]
         = <<<<2, "_findLiteraryMatches">>, <<3, "_findLiteraryMatches">>,
             <<1, "rankCandidates">>, <<2, "rankCandidates">>, <<3, "rankCandidates">>>>

----------------------------------------------------------------------------
(* The engine's tables after construction                                  *)

\* the index of an engine that has just been constructed
FreshIndexes == {<<>>, indexLiteraryWorks(Corpus)}

\* res and exc are what extractPassageFromCitation(c) gives on the index
\* works, however the rounding ties fall
IsFreshResult(works, c, res, exc) ==
    \E got \in {generatePassageCandidates(works, c, MaxCandidates)} :
        \E up \in SUBSET Ties(got.candidates) :
            \E call \in {PassageResult(c, got, up)} :
                res = call.result /\ exc = call.raised

----------------------------------------------------------------------------
(* The classifier and the biblical parser                                  *)

\* the book token of the match that identifySourceType finds in the text
ClassifiedBook(text) == Group(ReSearch(bible_standard, text), 1)[1]

\* C27: whenever a string without a semicolon is classified as 'bible', the
\* biblical parser returns exactly one reference for it, and its book is the
\* normalization of the book token the classifier matched.
C27_ClassifierAndParserAgree ==
    (Parsed /\ SourceType = "bible" /\ ~Contains(result[1].original_text, ";"))
    => /\ Len(Refs) = 1
       /\ Refs[1]["book"] = normalizeBookNames(ClassifiedBook(result[1].original_text))[1]

----------------------------------------------------------------------------
(* The line range handed to extractLiteraryPassage                         *)

\* the references the parser captures from a literature citation, before
\* they are turned into dictionaries
CapturedReferences(text) == parseLiteraryCitation(Strip(text))

\* C28: for a citation holding one literature reference, every call that
\* _findLiteraryMatches makes to extractLiteraryPassage carries exactly the
\* start_line and end_line captured from the citation text.
C28_RangeIsCaptured ==
    (/\ Extracted
     /\ identifySourceType(Strip(citation)) = "literature"
     /\ Len(CapturedReferences(citation)) = 1)
    => \A k \in 1..Len(literaryCalls) :
          /\ CapturedReferences(citation)[1].start_line = Some(literaryCalls[k][2])
          /\ CapturedReferences(citation)[1].end_line = Some(literaryCalls[k][3])

----------------------------------------------------------------------------
(* The citation-match score against the empty citation                     *)

MatchScored == op = "getCitationMatchScore"

\* the field is missing from the metadata or holds the empty string
EmptyOrMissing(metadata, field) == field \notin DOMAIN metadata \/ metadata[field] = ""

\* C29: against the empty citation, which is what rankCandidates compares
\* with, the citation-match score is 1.0 when title and author are both empty
\* or missing, 0.8 when only the title is, 0.7 when only the author is, and
\* 0.5 when neither is.
C29_MatchScoreByEmptyFields ==
    (MatchScored /\ args[2] = "") =>
        LET metadata == args[1].metadata
            no_title == EmptyOrMissing(metadata, "title")
            no_author == EmptyOrMissing(metadata, "author")
        IN  result = Some(CASE no_title /\ no_author -> One
                            [] no_title /\ ~no_author -> Frac(8, 10)
                            [] ~no_title /\ no_author -> Frac(7, 10)
                            [] OTHER -> Frac(5, 10))

C29_Witness ==
    /\ MatchScored
    /\ args[2] = ""
    /\ args[1].metadata = ("title" :> "Hamlet") @@ ("author" :> "")
    /\ result = Some(Frac(7, 10))

----------------------------------------------------------------------------
(* Ranking the same list again                                             *)

\* 0.30*quality + 0.20*reliability + 0.20*completeness + 0.30*match against
\* the empty citation: it reads no confidence, so it is the same at every call
FixedWeight(candidate) ==
    LET metadata == candidate.metadata
        no_title == EmptyOrMissing(metadata, "title")
        no_author == EmptyOrMissing(metadata, "author")
        match == FAdd(Frac(5, 10),
                      FAdd(IF no_title THEN Frac(3, 10) ELSE Zero,
                           IF no_author THEN Frac(2, 10) ELSE Zero))
        quality == IF candidate.text = "" THEN Zero ELSE IndicatorAverage(candidate.text)
    IN  FAdd(FAdd(FMul(Frac(30, 100), quality),
                  FMul(Frac(20, 100), ReliabilityOf(candidate.source))),
             FAdd(FMul(Frac(20, 100), CompletenessOf(metadata)),
                  FMul(Frac(30, 100), match)))

InUnit(x) == ~FLess(x, Zero) /\ ~FLess(One, x)

\* (c + W) / 2
Halfway(candidate) ==
    FMul(FAdd(candidate.confidence, FixedWeight(candidate)), Frac(1, 2))

\* the number of rankCandidates calls made on the list so far
RankCalls == IF Len(result[1]) = 0 THEN 1 ELSE Len(confidenceWrites) \div Len(result[1])

\* C30: after each of any number of rankCandidates calls on the same list
\* every confidence is in [0,1] and the list is in non-increasing order of
\* confidence; a call on confidences in [0,1] replaces each confidence c by
\* (c + W)/2 for the candidate's fixed weighted sum W, so every confidence
\* that differs from W is changed by the call.
C30_RepeatedRanking ==
    Ranked =>
        LET before == args[1]
            after == result[1]
        IN  /\ \A k \in 1..Len(after) : InUnit(after[k].confidence)
            /\ \A i, j \in 1..Len(after) :
                  i < j => ~FLess(after[i].confidence, after[j].confidence)
            /\ RankCalls > 1 => \A k \in 1..Len(before) : InUnit(before[k].confidence)
            /\ (\A k \in 1..Len(before) : InUnit(before[k].confidence))
               => /\ \E p \in Permutations(1..Len(after)) :
                        \A k \in 1..Len(after) :
                           after[k] = [before[p[k]] EXCEPT
                                          !.confidence = Halfway(before[p[k]])]
                  /\ \A k \in 1..Len(before) :
                        before[k].confidence # FixedWeight(before[k])
                        => \E j \in 1..Len(after) :
                              /\ after[j] = [before[k] EXCEPT
                                                !.confidence = after[j].confidence]
                              /\ after[j].confidence # before[k].confidence

\* a second call that puts the second candidate of the first ranking ahead
\* of the first
C30_Witness ==
    /\ Ranked
    /\ RankCalls = 2
    /\ Len(args[1]) = 2
    /\ FLess(args[1][2].confidence, args[1][1].confidence)
    /\ result[1][1] = [args[1][2] EXCEPT !.confidence = Halfway(args[1][2])]
    /\ result[1][2] = [args[1][1] EXCEPT !.confidence = Halfway(args[1][1])]
    /\ FLess(result[1][2].confidence, result[1][1].confidence)
====
